---- MODULE Spec2Model ----
\* Model of the hybrid retrieval worker: vector store, result cache, BM25
\* cache, in-process BM25 index, ingest/delete tasks and the ChromaDB
\* connection pool.
EXTENDS Integers, Sequences, FiniteSets, TLC

\* ---------------------------------------------------------------- bounds
NumDocs == 2
MaxLevel == 2
NumWords == 1
MaxChunks == 1
NumThreads == 3
NumHandles == 4
\* inputs of the fusion and of the adaptive filter
FusionDocs == 3
MaxLegLen == 2
MaxCandidates == 3
\* characters of a document text, and of a section that is split
MaxTextLen == 5
MaxSectionLen == 5
MaxChunkSize == 4
\* words of a text that is tokenized
MaxWords == 3
\* chunks of each of the two documents whose ingest order is swapped
MaxCommuteChunks == 3
\* queries of one batch_hybrid_search call
MaxBatch == 3
\* tasks of one worker that use the SearchService at the same time
NumRaceTasks == 2
\* reprocessing: chunks per run and content versions of a document
MaxRunChunks == 2
NumVersions == 2
\* ChromaDBPool sizes (CHROMADB_POOL_MAX, CHROMADB_POOL_MIN), scaled down
max_connections == 2
min_connections == 1

\* ------------------------------------------------------ program constants
TOP_K == 30
RERANK_TOP_K == 10
RRF_K == 60
VECTOR_WEIGHT == 7
BM25_WEIGHT == 3
FALLBACK_SCORE == 5
DEGENERATE_SCORE == 50
INGEST_COUNTDOWN == 60
INGEST_MAX_RETRIES == 3
QUERY_COUNTDOWN == 30
QUERY_MAX_RETRIES == 2
MIN_ACCESS_LEVEL == 1
MAX_ACCESS_LEVEL == 100
OVERLAP == 100
MIN_SIZE == 200
SENTENCE_RANGE == 100
ITEM_RANGE == 150
BASE_SIZE == 1000
KEEP_TOGETHER_SIZE == 200
ITEM_KEEP_TOGETHER_SIZE == 500
SMALL_ITEM_SIZE == 300
SMALL_ITEM_MARGIN == 50
MEDIUM_ITEM_SIZE == 800
NUMBERED_ITEM_SIZE == 600

Docs == 1..NumDocs
Levels == 1..MaxLevel
\* the integers a caller can pass as access_level: the levels in use, and
\* one below and one above the valid range
InputLevels == Levels \cup {MIN_ACCESS_LEVEL - 1, MAX_ACCESS_LEVEL + 1}
Words == 1..NumWords
Threads == 1..NumThreads
Handles == 1..NumHandles
\* Optional values (Python None or a value) are the sets {} and {v}.
None == {}
Some(v) == {v}
The(s) == CHOOSE v \in s : TRUE
NoQuery == [word |-> 0, upper |-> FALSE]

\* A query string: a word, possibly written in upper case.
Queries == [word : Words, upper : BOOLEAN]

VARIABLES
    store,              \* vector store collection: chunk records in insertion order
    search_cache,       \* Redis search_cache:* entries, key -> report
    bm25_cache,         \* Redis bm25_cache:index_{L} entries
    bm25,               \* SearchService.bm25 / bm25_docs / bm25_metadatas / bm25_ids
    bm25_initialized,   \* SearchService._bm25_initialized
    last,               \* response of the last task
    dirty,              \* per level: a write at or below it completed since the last search there
    deleted,            \* documents deleted and not ingested again
    available_connections,  \* ChromaDBPool.available_connections (queue)
    active_connections,     \* ChromaDBPool.active_connections
    connection_count,       \* ChromaDBPool.connection_count
    pc,                     \* per thread: position in its pool call
    client,                 \* per thread: local variable client (0 is None)
    op,                     \* per thread: running call: "db", "health", "close" or "none"
    hb_passed,              \* per thread: client passed a heartbeat in this get_client call
    outstanding,            \* per thread: handles borrowed minus return_client calls
    dead_dropped,           \* handles whose heartbeat failed inside get_client
    raised_exit,            \* the operation that ended last raised while holding a handle
    db_error,               \* the DatabaseService operation that ended last raised for want of a handle
    collection,             \* SearchService.collection: the handle its collection object is bound to (0: not constructed)
    used_handle,            \* the handle the last call on SearchService.collection ran on (0: no call yet)
    fault,                  \* failures injected into the last retrieval
    pure,                   \* last call of a function on its own: name, arguments, result
    task,                   \* the Celery task in flight: arguments, retries, countdowns
    doc_status,             \* documents.status in PostgreSQL, per document
    svc,                    \* the BM25 fields of a SearchService shared by racing tasks
    thr                     \* per racing task: position, clearance, locals, results

searchVars == <<store, search_cache, bm25_cache, bm25, bm25_initialized,
                last, dirty, deleted>>
poolVars == <<available_connections, active_connections, connection_count,
              pc, client, op, hb_passed, outstanding, dead_dropped,
              raised_exit, db_error, collection, used_handle>>
raceVars == <<svc, thr>>
auxVars == <<fault, pure, task, doc_status, raceVars>>
vars == <<searchVars, poolVars, auxVars>>

\* ------------------------------------------------------------- sequences
Take(s, n) == IF Len(s) <= n THEN s ELSE SubSeq(s, 1, n)

Range(s) == {s[i] : i \in 1..Len(s)}

\* Sort keys are fractions kn / kd with kd > 0 (an integer key has kd = 1).
KeyGT(a, b) == a.kn * b.kd > b.kn * a.kd

\* list.sort(key=..., reverse=True): stable and descending
RECURSIVE InsertDesc(_, _)
InsertDesc(s, x) ==
    IF s = <<>> THEN <<x>>
    ELSE IF KeyGT(x, Head(s)) THEN <<x>> \o s
         ELSE <<Head(s)>> \o InsertDesc(Tail(s), x)

RECURSIVE SortDesc(_)
SortDesc(s) ==
    IF s = <<>> THEN <<>>
    ELSE InsertDesc(SortDesc(SubSeq(s, 1, Len(s) - 1)), s[Len(s)])

RECURSIVE MaxOf(_)
MaxOf(S) ==
    LET x == CHOOSE y \in S : TRUE
    IN IF S = {x} THEN x
       ELSE LET m == MaxOf(S \ {x}) IN IF x > m THEN x ELSE m

RECURSIVE MinOf(_)
MinOf(S) ==
    LET x == CHOOSE y \in S : TRUE
    IN IF S = {x} THEN x
       ELSE LET m == MinOf(S \ {x}) IN IF x < m THEN x ELSE m

RECURSIVE Pow2(_)
Pow2(n) == IF n = 0 THEN 1 ELSE 2 * Pow2(n - 1)


\* ------------------------------------------------- external model stubs
\* Tokens of a chunk text and of a query after _improved_tokenize (lower-cased).
ChunkTokens(c) == {c.doc, 0}
QueryTokens(q) == {q.word}

\* Cosine similarity (1 - distance) of the query embedding and a chunk
\* embedding; the embedding model is case sensitive.
VecSim(q, c) ==
    (3 * q.word + 5 * c.doc + 2 * c.idx + c.ver + (IF q.upper THEN 4 ELSE 0)) % 7

\* Raw cross-encoder logit of (query, chunk text).
RawLogit(q, c) ==
    (IF q.word = c.doc THEN 3 ELSE 1) + (IF q.upper THEN c.idx % 2 ELSE 0)

\* ------------------------------------------------------- vector store
ChunkId(c) == <<c.doc, c.idx>>

NewChunks(d, L, n, ver) ==
    [i \in 1..n |-> [doc |-> d, idx |-> i - 1, level |-> L, ver |-> ver]]

StoreIds(st) == {ChunkId(st[i]) : i \in 1..Len(st)}

\* collection.get / collection.query with where={"access_level": {"$lte": L}}
WhereLevelLte(st, L) == SelectSeq(st, LAMBDA c : c.level <= L)

\* collection.get(where={"doc_id": d})
WhereDoc(st, d) == SelectSeq(st, LAMBDA c : c.doc = d)

\* collection.delete(ids=...) of every chunk of the document
delete_document_chunks(st, d) == SelectSeq(st, LAMBDA c : c.doc # d)

\* collection.add of records whose ids are not yet in the collection
CollectionAdd(st, chunks) ==
    st \o SelectSeq(chunks, LAMBDA c : ChunkId(c) \notin StoreIds(st))

\* DatabaseService.query_chromadb: nearest n_results chunks passing the filter
query_chromadb(st, q, L, top_k) ==
    LET cand == WhereLevelLte(st, L)
        keyed == [i \in 1..Len(cand) |->
                    [c |-> cand[i], kn |-> VecSim(q, cand[i]), kd |-> 1]]
    IN Take(SortDesc(keyed), top_k)

\* ------------------------------------------------------------ cache keys
SearchParams == [top_k : {TOP_K}, rerank_top_k : {RERANK_TOP_K},
                 vector_weight : {VECTOR_WEIGHT}, bm25_weight : {BM25_WEIGHT}]
DefaultParams == [top_k |-> TOP_K, rerank_top_k |-> RERANK_TOP_K,
                  vector_weight |-> VECTOR_WEIGHT, bm25_weight |-> BM25_WEIGHT]

\* query.strip().lower()
StripLower(q) == [q EXCEPT !.upper = FALSE]

_generate_search_cache_key(q, L, params) ==
    [query |-> StripLower(q), access_level |-> L, params |-> params]

CacheKeys == {_generate_search_cache_key(q, L, p) :
                q \in Queries, L \in InputLevels, p \in SearchParams}

\* get_cached_search_results: a store error is a miss; a hit is marked from_cache
get_cached_search_results(cache, q, L, params, cacheOk) ==
    LET e == cache[_generate_search_cache_key(q, L, params)]
    IN IF ~cacheOk \/ e = None THEN None
       ELSE Some([The(e) EXCEPT !.from_cache = TRUE])

cache_search_results_RawKey(cache, q, L, report, params, cacheOk) ==
    IF ~cacheOk \/ q.upper THEN cache
    ELSE [cache EXCEPT ![_generate_search_cache_key(q, L, params)] =
                          Some([report EXCEPT !.from_cache = FALSE])]

\* cache_search_results: setex of the report with from_cache = False
cache_search_results(cache, q, L, report, params, cacheOk) ==
    IF ~cacheOk THEN cache
    ELSE [cache EXCEPT ![_generate_search_cache_key(q, L, params)] =
                          Some([report EXCEPT !.from_cache = FALSE])]

get_cached_bm25_index(cache, L, cacheOk) ==
    IF cacheOk THEN cache[L] ELSE None

cache_bm25_index_Always(cache, L, data, cacheOk) ==
    [cache EXCEPT ![L] = Some(data)]

cache_bm25_index(cache, L, data, cacheOk) ==
    IF cacheOk THEN [cache EXCEPT ![L] = Some(data)] ELSE cache

\* invalidate_search_cache(): every search_cache:* key is deleted; a store
\* error leaves the entries as they are (the call returns 0)
invalidate_search_cache(cache, cacheOk) ==
    IF cacheOk THEN [k \in DOMAIN cache |-> None] ELSE cache

\* invalidate_bm25_cache(): every bm25_cache:* key is deleted
invalidate_bm25_cache(cache, cacheOk) ==
    IF cacheOk THEN [L \in DOMAIN cache |-> None] ELSE cache

\* ------------------------------------------------------------ BM25 index
\* BM25Okapi.get_scores: one score per indexed chunk, in corpus order; the
\* weight of a term falls with the number of indexed chunks containing it.
BM25Scores(docs, q) ==
    LET N == Len(docs)
        df(t) == Cardinality({i \in 1..N : t \in ChunkTokens(docs[i])})
        w(t) == N - df(t) + 1
        hits(i) == QueryTokens(q) \cap ChunkTokens(docs[i])
        RECURSIVE Sum(_, _)
        Sum(T, i) == IF T = {} THEN 0
                     ELSE LET t == CHOOSE x \in T : TRUE
                          IN w(t) + Sum(T \ {t}, i)
    IN [i \in 1..N |-> Sum(hits(i), i)]

\* _ensure_bm25_initialized: the outcome as a record of the new field values
_ensure_bm25_initialized(st, cache, idx, inited, L, cacheOk, getOk) ==
    IF inited
    THEN [bm25 |-> idx, inited |-> TRUE, cache |-> cache, rebuilt |-> FALSE]
    ELSE LET cached == get_cached_bm25_index(cache, L, cacheOk)
             all_docs == WhereLevelLte(st, L)
             built == [docs |-> all_docs, access_level |-> L]
         IN IF cached # None
            THEN [bm25 |-> cached, inited |-> TRUE, cache |-> cache,
                  rebuilt |-> FALSE]
            ELSE IF ~getOk \/ all_docs = <<>>
            THEN [bm25 |-> None, inited |-> FALSE, cache |-> cache,
                  rebuilt |-> getOk]
            ELSE [bm25 |-> Some(built), inited |-> TRUE,
                  cache |-> cache_bm25_index(cache, L, built, cacheOk),
                  rebuilt |-> TRUE]

Bm25LevelOk_NoFilter(c, L) == TRUE

\* the test on metadata.access_level in _bm25_search
Bm25LevelOk(c, L) == c.level <= L

_bm25_search(idx, q, L, top_k) ==
    IF idx = None THEN <<>>
    ELSE LET docs == The(idx).docs
             scores == BM25Scores(docs, q)
             keyed == [i \in 1..Len(docs) |->
                         [c |-> docs[i], kn |-> scores[i], kd |-> 1]]
             allowed == SelectSeq(keyed, LAMBDA r : Bm25LevelOk(r.c, L))
         IN Take(SortDesc(allowed), top_k)

_vector_search(st, q, L, top_k, vecOk) ==
    IF vecOk THEN query_chromadb(st, q, L, top_k) ELSE <<>>


\* ------------------------------------------------------------ RRF fusion
PosOf(leg, id) ==
    IF \E i \in 1..Len(leg) : ChunkId(leg[i].c) = id
    THEN CHOOSE i \in 1..Len(leg) : ChunkId(leg[i].c) = id
    ELSE 0

\* rrf_scores[id]: sum over the legs of weight / (k + rank + 1), rank zero-based
RrfScore_RankFromOne(pv, pb, wv, wb) ==
    IF pv > 0 /\ pb > 0
    THEN [kn |-> wv * (RRF_K + pb + 1) + wb * (RRF_K + pv + 1),
          kd |-> (RRF_K + pv + 1) * (RRF_K + pb + 1)]
    ELSE IF pv > 0 THEN [kn |-> wv, kd |-> RRF_K + pv + 1]
    ELSE [kn |-> wb, kd |-> RRF_K + pb + 1]

RrfScore(pv, pb, wv, wb) ==
    IF pv > 0 /\ pb > 0
    THEN [kn |-> wv * (RRF_K + pb) + wb * (RRF_K + pv),
          kd |-> (RRF_K + pv) * (RRF_K + pb)]
    ELSE IF pv > 0 THEN [kn |-> wv, kd |-> RRF_K + pv]
    ELSE [kn |-> wb, kd |-> RRF_K + pb]

_rrf_fusion(vector_results, bm25_results, wv, wb) ==
    LET vecIds == {ChunkId(vector_results[i].c) : i \in 1..Len(vector_results)}
        bmOnly == SelectSeq(bm25_results, LAMBDA r : ChunkId(r.c) \notin vecIds)
        all_docs == vector_results \o bmOnly
        scored == [i \in 1..Len(all_docs) |->
                     LET id == ChunkId(all_docs[i].c)
                         sc == RrfScore(PosOf(vector_results, id),
                                        PosOf(bm25_results, id), wv, wb)
                     IN [c |-> all_docs[i].c, kn |-> sc.kn, kd |-> sc.kd]]
    IN SortDesc(scored)

\* --------------------------------------------------------------- rerank
\* local_reranker_server: amplify the logits, rescale to 0..10 (here in
\* tenths, 0..100), sort descending, keep top_k
RerankServer(q, documents, top_k) ==
    LET n == Len(documents)
        amp(i) == Pow2(RawLogit(q, documents[i]))
        amps == {amp(i) : i \in 1..n}
        lo == MinOf(amps)
        hi == MaxOf(amps)
        final(i) == IF hi > lo THEN ((amp(i) - lo) * 100) \div (hi - lo)
                    ELSE DEGENERATE_SCORE
        res == [i \in 1..n |-> [index |-> i, kn |-> final(i), kd |-> 1]]
    IN Take(SortDesc(res), top_k)

\* LocalRerankingService._fallback_results
_fallback_results(documents, top_k) ==
    [i \in 1..Len(Take(documents, top_k)) |->
        [index |-> i, kn |-> FALLBACK_SCORE, kd |-> 1]]

\* LocalRerankingService.rerank_results
rerank_results(q, documents, top_k, rrOk) ==
    IF documents = <<>> THEN <<>>
    ELSE IF rrOk THEN RerankServer(q, documents, top_k)
    ELSE _fallback_results(documents, top_k)

\* HIGH_RELEVANCE_THRESHOLD test, scores in tenths: score >= threshold
HighOk_SeventyPercent(score, best, range) == 10 * score >= 7 * best

HighOk(score, best, range) ==
    IF range > 20 THEN 10 * score >= 8 * best
    ELSE IF range > 10 THEN 10 * score >= 7 * best
    ELSE score >= best - 1

GeneralChat_OrEqual(best, range) ==
    IF range > 20 THEN 10 * best <= 4 * best
    ELSE IF range > 10 THEN 10 * best <= 3 * best
    ELSE 10 * best <= 5 * best

\* best_score < GENERAL_CHAT_THRESHOLD
GeneralChat(best, range) ==
    IF range > 20 THEN 10 * best < 4 * best
    ELSE IF range > 10 THEN 10 * best < 3 * best
    ELSE 10 * best < 5 * best

\* _rerank_results after the reranker answered: the answer is matched to the
\* fused results, then the adaptive thresholds are applied
AdaptiveFilter(results, reranked) ==
    LET inRange == SelectSeq(reranked, LAMBDA r : r.index <= Len(results))
        all_reranked == [i \in 1..Len(inRange) |->
                           [c |-> results[inRange[i].index].c,
                            rerank_score |-> inRange[i].kn]]
        scores == {all_reranked[i].rerank_score : i \in 1..Len(all_reranked)}
        best == MaxOf(scores)
        worst == MinOf(scores)
        range == best - worst
    IN IF all_reranked = <<>> THEN <<>>
       ELSE IF GeneralChat(best, range) THEN <<>>
       ELSE SelectSeq(all_reranked,
                      LAMBDA r : HighOk(r.rerank_score, best, range))

_rerank_results(q, results, top_k, rrOk) ==
    IF results = <<>> THEN <<>>
    ELSE AdaptiveFilter(results,
            rerank_results(q, [i \in 1..Len(results) |-> results[i].c], top_k, rrOk))

\* ---------------------------------------------- SearchService.hybrid_search
\* Steps 3 and 4 of hybrid_search: fusion, rerank and adaptive filter
FuseAndRerank(vector_results, bm25_results, q, params, rrOk) ==
    \* fused_results[:rerank_top_k] is empty on both branches that skip the rerank
    IF (vector_results = <<>> /\ bm25_results = <<>>) \/ params.rerank_top_k <= 0
    THEN <<>>
    ELSE _rerank_results(q, _rrf_fusion(vector_results, bm25_results,
                                        params.vector_weight, params.bm25_weight),
                         params.rerank_top_k, rrOk)

\* The report and the cache write, once the index is ensured
HybridComputed(st, scache, ens, q, L, params, cacheOk, vecOk, rrOk) ==
    LET report == [success |-> TRUE, query |-> q, access_level |-> L,
                   results |-> FuseAndRerank(
                       _vector_search(st, q, L, params.top_k, vecOk),
                       _bm25_search(ens.bm25, q, L, params.top_k),
                       q, params, rrOk),
                   from_cache |-> FALSE]
    IN [report |-> report,
        scache |-> cache_search_results(scache, q, L, report, params, cacheOk),
        bcache |-> ens.cache, bm25 |-> ens.bm25, inited |-> ens.inited,
        rebuilt |-> ens.rebuilt]

\* The outcome of one call: the report and the new cache and index values.
HybridOutcome(st, scache, bcache, idx, inited, q, L, params, cacheOk, getOk, vecOk, rrOk) ==
    LET cached == get_cached_search_results(scache, q, L, params, cacheOk)
    IN IF cached # None
       THEN [report |-> The(cached), scache |-> scache, bcache |-> bcache,
             bm25 |-> idx, inited |-> inited, rebuilt |-> FALSE]
       ELSE HybridComputed(st, scache,
                _ensure_bm25_initialized(st, bcache, idx, inited, L, cacheOk, getOk),
                q, L, params, cacheOk, vecOk, rrOk)

\* ------------------------------------------------------------------ tasks
\* repeat: the task before was a hybrid_search with the same arguments;
\* same_results: its results equal those of this one.
NoTask == [op |-> "none", doc |-> 0, query |-> NoQuery, level |-> 0,
           n |-> 0, ver |-> 0,
           success |-> TRUE, results |-> <<>>, from_cache |-> FALSE,
           rebuilt |-> FALSE, was_dirty |-> FALSE,
           repeat |-> FALSE, same_results |-> FALSE]

\* The access level of a document (chunk.access_level = document.access_level).
LevelOf(d) == ((d - 1) % MaxLevel) + 1

\* tasks.hybrid_search: SearchService.hybrid_search, then the sources are
\* assembled from the results that passed the adaptive filter
HybridSearchTask(q, L, cacheOk, getOk, vecOk, rrOk) ==
    \E out \in {HybridOutcome(store, search_cache, bm25_cache, bm25,
                              bm25_initialized, q, L, DefaultParams,
                              cacheOk, getOk, vecOk, rrOk)} :
       /\ search_cache' = out.scache
       /\ bm25_cache' = out.bcache
       /\ bm25' = out.bm25
       /\ bm25_initialized' = out.inited
       /\ last' = [op |-> "hybrid_search", doc |-> 0, query |-> q, level |-> L,
                   n |-> 0, ver |-> 0,
                   success |-> out.report.success,
                   results |-> out.report.results,
                   from_cache |-> out.report.from_cache,
                   rebuilt |-> out.rebuilt,
                   was_dirty |-> L \in DOMAIN dirty /\ dirty[L],
                   repeat |-> last.op = "hybrid_search" /\ last.query = q
                              /\ last.level = L,
                   same_results |-> last.op = "hybrid_search" /\ last.query = q
                                    /\ last.level = L
                                    /\ last.results = out.report.results]
       /\ dirty' = [l \in DOMAIN dirty |-> l # L /\ dirty[l]]
       /\ UNCHANGED <<store, deleted, poolVars>>

\* tasks.rag_query: embed, query the vector store, rerank, build the sources
RagQueryTask(q, L, vecOk, rrOk) ==
    LET found == IF vecOk THEN query_chromadb(store, q, L, TOP_K) ELSE <<>>
        documents == [i \in 1..Len(found) |-> found[i].c]
        reranked == rerank_results(q, documents, RERANK_TOP_K, rrOk)
        sources == [i \in 1..Len(reranked) |->
                      [c |-> documents[reranked[i].index],
                       rerank_score |-> reranked[i].kn]]
    IN /\ last' = [NoTask EXCEPT !.op = "rag_query", !.query = q, !.level = L,
                                 !.success = vecOk, !.results = sources]
       /\ UNCHANGED <<store, search_cache, bm25_cache, bm25, bm25_initialized,
                      dirty, deleted, poolVars>>

\* tasks.process_document, one attempt.  outcome: "ok", "fail_before_save"
\* (parse, chunking, embedding or pool error) or "fail_after_save" (PostgreSQL
\* error); dupRaises: collection.add rejects ids that already exist.  A failed
\* attempt runs the compensating delete_document_chunks before the retry;
\* cleanupOk is FALSE when that call raises (the error is swallowed).
ProcessDocumentTask(d, L, n, ver, outcome, dupRaises, cleanupOk) ==
    LET chunks == NewChunks(d, L, n, ver)
        clash == \E i \in 1..n : ChunkId(chunks[i]) \in StoreIds(store)
        addFails == clash /\ dupRaises
        saved == IF outcome = "fail_before_save" \/ addFails THEN store
                 ELSE CollectionAdd(store, chunks)
        ok == outcome = "ok" /\ ~addFails
    IN /\ store' = IF ok \/ ~cleanupOk THEN saved
                   ELSE delete_document_chunks(saved, d)
       /\ last' = [NoTask EXCEPT !.op = "process_document", !.doc = d,
                                 !.level = L, !.n = n, !.ver = ver,
                                 !.success = ok]
       /\ dirty' = [l \in DOMAIN dirty |-> dirty[l] \/ (ok /\ L <= l)]
       /\ deleted' = deleted \ {d}
       /\ UNCHANGED <<search_cache, bm25_cache, bm25, bm25_initialized, poolVars>>

\* tasks.delete_document: ok is FALSE when no pool handle could be borrowed
DeleteDocumentTask(d, ok) ==
    LET mine == WhereDoc(store, d)
        lv == IF mine = <<>> THEN MaxLevel + 1
              ELSE MinOf({mine[i].level : i \in 1..Len(mine)})
    IN /\ store' = IF ok THEN delete_document_chunks(store, d) ELSE store
       /\ last' = [NoTask EXCEPT !.op = "delete_document", !.doc = d,
                                 !.level = IF mine = <<>> THEN 0 ELSE lv,
                                 !.success = ok]
       /\ dirty' = [l \in Levels |-> dirty[l] \/ (ok /\ lv <= l)]
       /\ deleted' = IF ok THEN deleted \cup {d} ELSE deleted
       /\ UNCHANGED <<search_cache, bm25_cache, bm25, bm25_initialized, poolVars>>

\* SearchService.reinitialize_bm25: both invalidations, the in-process
\* fields reset, then _ensure_bm25_initialized
ReinitializeBm25Task(L, cacheOk, getOk) ==
    \E ens \in {_ensure_bm25_initialized(store,
                    invalidate_bm25_cache(bm25_cache, cacheOk), None, FALSE,
                    L, cacheOk, getOk)} :
       /\ search_cache' = invalidate_search_cache(search_cache, cacheOk)
       /\ bm25_cache' = ens.cache
       /\ bm25' = ens.bm25
       /\ bm25_initialized' = ens.inited
       /\ last' = [NoTask EXCEPT !.op = "reinitialize_bm25", !.level = L,
                                 !.rebuilt = ens.rebuilt]
       /\ UNCHANGED <<store, dirty, deleted, poolVars>>

\* ------------------------------------------------------- Celery retries
NoCeleryTask == [kind |-> "none", doc |-> 0, n |-> 0, ver |-> 0, level |-> 0,
                 retries |-> 0, state |-> "none", delays |-> <<>>]

\* self.retry(countdown=c, max_retries=m, exc=exc): the task is scheduled
\* again after c seconds, or ends in failure once m retries were made
Retry(t, countdown, max_retries) ==
    IF t.retries < max_retries
    THEN [t EXCEPT !.retries = @ + 1, !.state = "queued",
                   !.delays = Append(@, countdown)]
    ELSE [t EXCEPT !.state = "failed"]

\* A process_document task is dispatched; the dispatcher has set the
\* document's status to PROCESSING.
SubmitIngest(d, n, ver) ==
    /\ task.state \in {"none", "succeeded", "failed"}
    /\ task' = [NoCeleryTask EXCEPT !.kind = "process_document", !.doc = d,
                                    !.n = n, !.ver = ver, !.level = LevelOf(d),
                                    !.state = "queued"]
    /\ doc_status' = [doc_status EXCEPT ![d] = "PROCESSING"]
    /\ UNCHANGED <<searchVars, poolVars, fault, pure, raceVars>>

\* One attempt of the process_document task in flight.  statusOk is FALSE
\* when update_document_status fails (its error is logged only).
AttemptIngest(outcome, dupRaises, cleanupOk, statusOk) ==
    /\ task.kind = "process_document"
    /\ task.state = "queued"
    /\ ProcessDocumentTask(task.doc, task.level, task.n, task.ver, outcome,
                           dupRaises, cleanupOk)
    /\ task' = IF last'.success THEN [task EXCEPT !.state = "succeeded"]
               ELSE Retry(task, INGEST_COUNTDOWN, INGEST_MAX_RETRIES)
    /\ doc_status' = IF last'.success /\ statusOk
                     THEN [doc_status EXCEPT ![task.doc] = "completed"]
                     ELSE doc_status
    /\ UNCHANGED <<fault, pure, raceVars>>

\* A query task (rag_query or hybrid_search) is dispatched.
SubmitQuery(kind, L) ==
    /\ task.state \in {"none", "succeeded", "failed"}
    /\ task' = [NoCeleryTask EXCEPT !.kind = kind, !.level = L, !.state = "queued"]
    /\ UNCHANGED <<searchVars, poolVars, fault, pure, doc_status, raceVars>>

\* One attempt of the query task in flight; servicesOk is FALSE when
\* get_services() or the search raises and the except branch retries.
AttemptQuery(q, servicesOk) ==
    /\ task.kind \in {"rag_query", "hybrid_search"}
    /\ task.state = "queued"
    /\ IF servicesOk
       THEN /\ IF task.kind = "hybrid_search"
               THEN HybridSearchTask(q, task.level, TRUE, TRUE, TRUE, TRUE)
               ELSE RagQueryTask(q, task.level, TRUE, TRUE)
            /\ task' = [task EXCEPT !.state = "succeeded"]
       ELSE /\ task' = Retry(task, QUERY_COUNTDOWN, QUERY_MAX_RETRIES)
            /\ UNCHANGED <<searchVars, poolVars>>
    /\ UNCHANGED <<fault, pure, doc_status, raceVars>>

\* ----------------------------------------------------- access_level input
\* What a caller sends as access_level: absent, not an integer, or an integer
RawLevels == [present : BOOLEAN, is_int : BOOLEAN, value : InputLevels]

\* api.create_rag_query_task: 400 unless access_level is present, an int and
\* within [1, 100]; only then is rag_query dispatched
ApiAccepts(raw) ==
    /\ raw.present
    /\ raw.is_int
    /\ ~(raw.value < MIN_ACCESS_LEVEL \/ raw.value > MAX_ACCESS_LEVEL)

create_rag_query_task(q, raw, vecOk, rrOk) ==
    IF ApiAccepts(raw) THEN RagQueryTask(q, raw.value, vecOk, rrOk)
    ELSE /\ last' = [NoTask EXCEPT !.op = "api_rejected", !.query = q,
                                   !.success = FALSE]
         /\ UNCHANGED <<store, search_cache, bm25_cache, bm25, bm25_initialized,
                        dirty, deleted, poolVars>>

\* A task called without its access_level argument: Python raises TypeError
\* before the body runs.
MissingArgument(name) ==
    /\ last' = [NoTask EXCEPT !.op = name, !.success = FALSE]
    /\ UNCHANGED <<store, search_cache, bm25_cache, bm25, bm25_initialized,
                   dirty, deleted, poolVars>>

\* process_document as the worker receives it: the body uses access_level
\* as it comes
ProcessDocumentRaw(d, raw, outcome) ==
    IF raw.present
    THEN ProcessDocumentTask(d, raw.value, 1, 1, outcome, TRUE, TRUE)
    ELSE MissingArgument("process_document")

\* hybrid_search as the worker receives it
HybridSearchRaw(q, raw, vecOk) ==
    IF raw.present
    THEN HybridSearchTask(q, raw.value, TRUE, TRUE, vecOk, TRUE)
    ELSE MissingArgument("hybrid_search")

\* ------------------------------------- BM25 first use by racing tasks
\* SearchService.__init__: no index, not initialized (the None lists are
\* read as empty)
InitService == [bm25 |-> None, bm25_docs |-> <<>>, bm25_metadatas |-> <<>>,
                bm25_ids |-> <<>>, initialized |-> FALSE]

RaceTasks == 1..NumRaceTasks

\* src: the cached dict or the corpus read from the vector store;
\* iter: the list the id loop runs over; results: what _bm25_search returned
NoData == [bm25 |-> None, docs |-> <<>>, metadatas |-> <<>>, ids |-> <<>>]
IdleTask == [pc |-> "idle", level |-> 0, src |-> NoData, iter |-> <<>>,
             i |-> 0, results |-> <<>>]

\* pickle.dumps(...).decode('latin1') and pickle.loads(....encode('latin1')):
\* what Redis holds is a string; loading it gives the dict back, or raises
\* when the string is not a pickle (get_cached_bm25_index then returns None)
PickleDumps(data) == [loadable |-> TRUE, data |-> data]
PickleLoads(raw) == IF raw.loadable THEN Some(raw.data) ELSE None

\* get_cached_bm25_index on the raw entry of level L
LoadCachedBm25(cache, L) ==
    LET raw == get_cached_bm25_index(cache, L, TRUE)
    IN IF raw = None THEN None ELSE PickleLoads(The(raw))

\* hybrid_search is entered with clearance L (a result-cache miss)
RaceStart(t, L) ==
    /\ thr[t].pc \in {"idle", "done"}
    /\ thr' = [thr EXCEPT ![t] = [IdleTask EXCEPT !.pc = "ensure", !.level = L]]
    /\ UNCHANGED <<svc, bm25_cache>>

\* _ensure_bm25_initialized up to its first assignment: the flag test, the
\* cache lookup, collection.get and the empty-corpus return
RaceEnsure(t) ==
    /\ thr[t].pc = "ensure"
    /\ LET L == thr[t].level
           cached == LoadCachedBm25(bm25_cache, L)
           all_docs == WhereLevelLte(store, L)
       IN IF svc.initialized
          THEN /\ thr' = [thr EXCEPT ![t].pc = "search"]
               /\ svc' = svc
          ELSE IF cached # None
          THEN /\ thr' = [thr EXCEPT ![t].pc = "adopt_bm25", ![t].src = The(cached)]
               /\ svc' = svc
          ELSE IF all_docs = <<>>
          THEN /\ thr' = [thr EXCEPT ![t].pc = "search"]
               /\ svc' = [svc EXCEPT !.bm25 = None]
          ELSE /\ thr' = [thr EXCEPT ![t].pc = "build_bm25",
                                     ![t].src = [bm25 |-> Some(all_docs),
                                                 docs |-> all_docs,
                                                 metadatas |-> all_docs,
                                                 ids |-> <<>>]]
               /\ svc' = svc
    /\ UNCHANGED bm25_cache

\* the four assignments from the cached dict, then the flag
RaceAdopt(t) ==
    /\ \/ /\ thr[t].pc = "adopt_bm25"
          /\ svc' = [svc EXCEPT !.bm25 = thr[t].src.bm25]
          /\ thr' = [thr EXCEPT ![t].pc = "adopt_docs"]
       \/ /\ thr[t].pc = "adopt_docs"
          /\ svc' = [svc EXCEPT !.bm25_docs = thr[t].src.docs]
          /\ thr' = [thr EXCEPT ![t].pc = "adopt_metadatas"]
       \/ /\ thr[t].pc = "adopt_metadatas"
          /\ svc' = [svc EXCEPT !.bm25_metadatas = thr[t].src.metadatas]
          /\ thr' = [thr EXCEPT ![t].pc = "adopt_ids"]
       \/ /\ thr[t].pc = "adopt_ids"
          /\ svc' = [svc EXCEPT !.bm25_ids = thr[t].src.ids,
                                !.initialized = TRUE]
          /\ thr' = [thr EXCEPT ![t].pc = "search"]
    /\ UNCHANGED bm25_cache

\* self.bm25 = BM25Okapi(...); self.bm25_docs = ...; self.bm25_metadatas = ...
RaceBuild(t) ==
    /\ \/ /\ thr[t].pc = "build_bm25"
          /\ svc' = [svc EXCEPT !.bm25 = thr[t].src.bm25]
          /\ thr' = [thr EXCEPT ![t].pc = "build_docs"]
       \/ /\ thr[t].pc = "build_docs"
          /\ svc' = [svc EXCEPT !.bm25_docs = thr[t].src.docs]
          /\ thr' = [thr EXCEPT ![t].pc = "build_metadatas"]
       \/ /\ thr[t].pc = "build_metadatas"
          /\ svc' = [svc EXCEPT !.bm25_metadatas = thr[t].src.metadatas]
          /\ thr' = [thr EXCEPT ![t].pc = "build_ids"]
    /\ UNCHANGED bm25_cache

\* self.bm25_ids = []; the loop then runs over the list that
\* self.bm25_metadatas names at that moment
RaceIdsStart(t) ==
    /\ thr[t].pc = "build_ids"
    /\ svc' = [svc EXCEPT !.bm25_ids = <<>>]
    /\ thr' = [thr EXCEPT ![t].pc = "append_ids", ![t].iter = svc.bm25_metadatas,
                          ![t].i = 1]
    /\ UNCHANGED bm25_cache

\* one self.bm25_ids.append(...), or the end of the loop
RaceIdsAppend(t) ==
    /\ thr[t].pc = "append_ids"
    /\ IF thr[t].i <= Len(thr[t].iter)
       THEN /\ svc' = [svc EXCEPT !.bm25_ids = Append(@, ChunkId(thr[t].iter[thr[t].i]))]
            /\ thr' = [thr EXCEPT ![t].i = @ + 1]
       ELSE /\ svc' = svc
            /\ thr' = [thr EXCEPT ![t].pc = "cache", ![t].iter = <<>>, ![t].i = 0]
    /\ UNCHANGED bm25_cache

\* bm25_cache_data is assembled from the fields as they are now and cached,
\* then the flag is set
RaceCache(t) ==
    /\ thr[t].pc = "cache"
    /\ bm25_cache' = cache_bm25_index(bm25_cache, thr[t].level,
                          PickleDumps([bm25 |-> svc.bm25, docs |-> svc.bm25_docs,
                                       metadatas |-> svc.bm25_metadatas,
                                       ids |-> svc.bm25_ids]), TRUE)
    /\ svc' = [svc EXCEPT !.initialized = TRUE]
    /\ thr' = [thr EXCEPT ![t].pc = "search", ![t].src = NoData]

\* _bm25_search over the fields as they are now: position i takes its score
\* from the index, its metadata, id and content from the three lists; an
\* index error inside the loop ends in the except branch with []
RaceBm25Results(s, L) ==
    IF s.bm25 = None THEN <<>>
    ELSE LET scored == The(s.bm25)
             n == IF Len(scored) < Len(s.bm25_metadatas) THEN Len(scored)
                  ELSE Len(s.bm25_metadatas)
             pass == {i \in 1..n : s.bm25_metadatas[i].level <= L}
             all == [i \in 1..n |-> [scored |-> scored[i],
                                     metadata |-> s.bm25_metadatas[i],
                                     id |-> IF i <= Len(s.bm25_ids)
                                            THEN s.bm25_ids[i] ELSE <<0, 0>>,
                                     content |-> IF i <= Len(s.bm25_docs)
                                                 THEN s.bm25_docs[i]
                                                 ELSE s.bm25_metadatas[i]]]
         IN IF \E i \in pass : i > Len(s.bm25_ids) \/ i > Len(s.bm25_docs)
            THEN <<>>
            ELSE SelectSeq(all, LAMBDA r : r.metadata.level <= L)

RaceSearch(t) ==
    /\ thr[t].pc = "search"
    /\ thr' = [thr EXCEPT ![t].pc = "done",
                          ![t].results = RaceBm25Results(svc, thr[t].level)]
    /\ UNCHANGED <<svc, bm25_cache>>

\* The worker process starts again while no task is inside the service:
\* a new SearchService, the cached indexes stay in Redis
RaceRestart ==
    /\ \A t \in RaceTasks : thr[t].pc \in {"idle", "done"}
    /\ svc.initialized
    /\ svc' = InitService
    /\ thr' = [t \in RaceTasks |-> IdleTask]
    /\ UNCHANGED bm25_cache

\* ------------------------------------------------------------- tokenizer
\* The words a text is made of (already lower case, separated by spaces):
\* two dates, a decimal number, a decimal whose integer part reads as a
\* year, a year, a longer integer, a digit, a plain word, a stop word, a
\* hyphenated word and a range of years.
IsoDates == {"2024-01-15"}
DmyDates == {"15.01.2024"}
Decimals == {"3.14"}
YearDecimals == {"2024.5"}
Years == {"1999"}
IntegerTokens == {"12345", "7", "2024", "5", "2025"}
PlainWords == {"contracts", "north", "west", "date", "number"}
StopWords == {"and"}
Hyphenated == {"north-west", "2024-2025"}
Lexemes == IsoDates \cup DmyDates \cup Decimals \cup YearDecimals \cup Years
           \cup {"12345", "7", "contracts", "and"} \cup Hyphenated

\* the three re.sub calls: dates become DATE, decimals that do not start
\* with a year become NUMBER
Substitute(w) ==
    IF w \in IsoDates \cup DmyDates THEN "DATE"
    ELSE IF w \in Decimals THEN "NUMBER"
    ELSE w

\* re.findall(r'[\w-]+', ...) on one word: a full stop separates tokens
FindTokens(w) ==
    IF w = "2024.5" THEN <<"2024", "5">> ELSE <<w>>

\* token.split('-')
SplitHyphen(token) ==
    IF token = "north-west" THEN <<"north", "west">>
    ELSE IF token = "2024-2025" THEN <<"2024", "2025">>
    ELSE <<token>>

TokenLen(token) == IF token \in {"7", "5"} THEN 1 ELSE 4

\* morph.parse(token)[0].normal_form: lower case, the dictionary form
NormalForm(token) ==
    IF token = "DATE" THEN "date"
    ELSE IF token = "NUMBER" THEN "number"
    ELSE IF token = "contracts" THEN "contract"
    ELSE token

IsDigitString(t) == t \in Years \cup IntegerTokens

IsFourDigits(t) == t \in Years \cup {"2024", "2025"}

\* the body of the loop over the tokens, for one token
TokenOutput(token) ==
    IF TokenLen(token) < 2 THEN <<>>
    ELSE IF token \in Hyphenated
    THEN LET parts == SplitHyphen(token)
             lemmas == [i \in 1..Len(parts) |-> NormalForm(parts[i])]
         IN SelectSeq(lemmas, LAMBDA l : TokenLen(l) >= 2 /\ l \notin StopWords /\ ~IsDigitString(l))
    ELSE LET lemma == NormalForm(token)
         IN IF lemma \notin StopWords /\ ~IsDigitString(lemma)
            THEN IF token \in {"DATE", "NUMBER"} \/ IsFourDigits(token)
                 THEN <<token>>
                 ELSE <<lemma>>
            ELSE <<>>

RECURSIVE Flatten(_)
Flatten(ss) == IF ss = <<>> THEN <<>> ELSE Head(ss) \o Flatten(Tail(ss))

\* _improved_tokenize on a text given as its words
_improved_tokenize(words) ==
    LET tokens == Flatten([i \in 1..Len(words) |-> FindTokens(Substitute(words[i]))])
    IN Flatten([i \in 1..Len(tokens) |-> TokenOutput(tokens[i])])

\* --------------------------------------------------------------- chunking
\* Characters: a letter, a digit, a full stop, a space, a line break.
Letter == "a"
Digit == "1"
Stop == "."
Space == " "
Newline == "nl"
Chars == {Letter, Digit, Stop, Space, Newline}
IsSpace(c) == c \in {Space, Newline}

\* text[i] with Python's zero-based index
At(text, i) == text[i + 1]

\* range(position, max(0, position - search_range), -1) with
\* search_range = min(limit, position)
SearchIndices(position, limit) ==
    LET search_range == IF limit < position THEN limit ELSE position
    IN {i \in 0..position : i > position - search_range}

\* _find_sentence_boundary: the nearest sentence end or paragraph break at or
\* before position, else the nearest whitespace, else position itself.
\* (_is_abbreviation is false for this alphabet.)
_find_sentence_boundary(text, position, limit) ==
    LET I == SearchIndices(position, limit)
        sentence == {i \in I :
            \/ At(text, i) = Stop /\ i + 1 < Len(text) /\ IsSpace(At(text, i + 1))
            \/ At(text, i) = Newline /\ i + 1 < Len(text) /\ At(text, i + 1) = Digit}
        word == {i \in I : IsSpace(At(text, i))}
    IN IF sentence # {} THEN MaxOf(sentence) + 1
       ELSE IF word # {} THEN MaxOf(word)
       ELSE position

\* re.match(r'^\d+\.', text[j:j+10]) after the whitespace from j on is skipped
NumberedLineAt(text, j) ==
    LET rest == {k \in j..(Len(text) - 1) : ~IsSpace(At(text, k))}
    IN /\ rest # {}
       /\ LET b == MinOf(rest)
          IN \E k \in 1..9 :
                /\ b + k < Len(text)
                /\ \A m \in 0..(k - 1) : At(text, b + m) = Digit
                /\ At(text, b + k) = Stop

\* _find_semantic_boundary: for a numbered item the nearest end of an item
\* that is followed by the next numbered line, else the sentence boundary
_find_semantic_boundary(text, position, section_type, cfg) ==
    LET I == SearchIndices(position, cfg.item_range)
        items == {i \in I : /\ i > 0
                            /\ At(text, i - 1) = Stop
                            /\ At(text, i) = Newline
                            /\ NumberedLineAt(text, i + 1)}
    IN IF section_type = "numbered_item" /\ items # {} THEN MaxOf(items) + 1
       ELSE _find_sentence_boundary(text, position, cfg.sentence_range)

\* len(text[a:b].strip())
StripLen(text, a, b) ==
    LET kept == {i \in a..(b - 1) : i < Len(text) /\ ~IsSpace(At(text, i))}
    IN IF kept = {} THEN 0 ELSE MaxOf(kept) - MinOf(kept) + 1

NextPos_EndMinusOverlap(current_pos, end_pos, overlap) == end_pos - overlap

\* current_pos = max(current_pos + 1, end_pos - OVERLAP)
NextPos(current_pos, end_pos, overlap) ==
    IF current_pos + 1 > end_pos - overlap THEN current_pos + 1
    ELSE end_pos - overlap

\* One iteration of the while loop of _split_section_into_chunks, or of
\* _split_text_into_chunks when cfg.basic.  st: current_pos, the chunks so
\* far as [start, end], done.  start_pos is the section's offset.
SplitIteration(text, section_type, start_pos, chunk_size, cfg, st) ==
    LET cur == st.current_pos
        limit == IF cur + chunk_size < Len(text) THEN cur + chunk_size ELSE Len(text)
        end_pos == IF limit >= Len(text) THEN limit
                   ELSE IF cfg.basic
                   THEN _find_sentence_boundary(text, limit, cfg.sentence_range)
                   ELSE _find_semantic_boundary(text, limit, section_type, cfg)
        n == StripLen(text, cur, end_pos)
        keep == IF cfg.basic THEN n >= cfg.min_size \/ st.chunks = <<>>
                ELSE n > 0 /\ n >= cfg.min_size
        chunks == IF keep
                  THEN Append(st.chunks, [start |-> start_pos + cur,
                                          end |-> start_pos + end_pos])
                  ELSE st.chunks
        next == NextPos(cur, end_pos, cfg.overlap)
    IN IF end_pos >= Len(text)
       THEN [current_pos |-> cur, chunks |-> chunks, done |-> TRUE]
       ELSE [current_pos |-> next, chunks |-> chunks, done |-> next >= Len(text)]

RECURSIVE SplitLoop(_, _, _, _, _, _)
SplitLoop(text, section_type, start_pos, chunk_size, cfg, st) ==
    IF st.done THEN st.chunks
    ELSE SplitLoop(text, section_type, start_pos, chunk_size, cfg,
                   SplitIteration(text, section_type, start_pos, chunk_size, cfg, st))

SplitStart == [current_pos |-> 0, chunks |-> <<>>, done |-> FALSE]

\* _split_section_into_chunks: a section that fits is one chunk over the
\* section's interval, a longer one goes through the loop
_split_section_into_chunks(section, chunk_size, cfg) ==
    IF Len(section.content) <= chunk_size
    THEN <<[start |-> section.start_pos, end |-> section.end_pos]>>
    ELSE SplitLoop(section.content, section.section_type, section.start_pos,
                   chunk_size, cfg, SplitStart)

\* ChunkingConfig and the search ranges of the boundary functions
ChunkingConfig == [overlap |-> OVERLAP, min_size |-> MIN_SIZE,
                   sentence_range |-> SENTENCE_RANGE, item_range |-> ITEM_RANGE,
                   basic |-> FALSE]

\* text.split('\n'): line k of the text runs from LineStart to LineEnd
Newlines(text) == {i \in 0..(Len(text) - 1) : At(text, i) = Newline}
NumLines(text) == Cardinality(Newlines(text)) + 1
NthNewline(text, j) ==
    CHOOSE i \in Newlines(text) :
        Cardinality({m \in Newlines(text) : m < i}) = j - 1
LineStart(text, k) == IF k = 1 THEN 0 ELSE NthNewline(text, k - 1) + 1
LineEnd(text, k) == IF k = NumLines(text) THEN Len(text) ELSE NthNewline(text, k)

\* s.strip()
Strip(chars) ==
    LET kept == {i \in 1..Len(chars) : ~IsSpace(chars[i])}
    IN IF kept = {} THEN <<>> ELSE SubSeq(chars, MinOf(kept), MaxOf(kept))

Line(text, k) ==
    IF LineStart(text, k) >= LineEnd(text, k) THEN <<>>
    ELSE SubSeq(text, LineStart(text, k) + 1, LineEnd(text, k))

\* '\n'.join(lines)
RECURSIVE Join(_)
Join(ls) ==
    IF ls = <<>> THEN <<>>
    ELSE IF Len(ls) = 1 THEN ls[1]
    ELSE ls[1] \o <<Newline>> \o Join(Tail(ls))

\* _classify_line on a stripped line: of the patterns only the numbered
\* item, digits, a full stop and at least one more character, can match a
\* line of these characters
IsNumberedItem(line) ==
    \E k \in 1..(Len(line) - 2) :
        /\ \A m \in 1..k : line[m] = Digit
        /\ line[k + 1] = Stop

\* _analyze_structure, the loop over the lines from line k on.
\* st: the sections so far, the open section (if any), its content lines
RECURSIVE AnalyzeLines(_, _, _)
AnalyzeLines(text, k, st) ==
    IF k > NumLines(text) THEN st
    ELSE LET line == Line(text, k)
             line_stripped == Strip(line)
             closed == IF st.current # None /\ st.content # <<>>
                       THEN Append(st.sections,
                                   [The(st.current) EXCEPT
                                       !.content = Strip(Join(st.content))])
                       ELSE st.sections
         IN IF line_stripped = <<>>
            THEN AnalyzeLines(text, k + 1,
                    [st EXCEPT !.content = IF @ # <<>> THEN Append(@, <<>>) ELSE @])
            ELSE IF IsNumberedItem(line_stripped)
            THEN AnalyzeLines(text, k + 1,
                    [sections |-> closed,
                     current |-> Some([content |-> <<>>,
                                       section_type |-> "numbered_item",
                                       start_pos |-> LineStart(text, k),
                                       end_pos |-> LineStart(text, k) + Len(line)]),
                     content |-> <<line_stripped>>])
            ELSE AnalyzeLines(text, k + 1,
                    [st EXCEPT !.content = Append(@, line_stripped)])

\* _analyze_structure: the last open section is closed with end_pos =
\* len(text); a text without sections is one paragraph section
_analyze_structure(text) ==
    LET st == AnalyzeLines(text, 1, [sections |-> <<>>, current |-> None,
                                     content |-> <<>>])
        sections == IF st.current # None /\ st.content # <<>>
                    THEN Append(st.sections,
                                [The(st.current) EXCEPT
                                    !.content = Strip(Join(st.content)),
                                    !.end_pos = Len(text)])
                    ELSE st.sections
    IN IF sections # <<>> THEN sections
       ELSE <<[content |-> Strip(text), section_type |-> "paragraph",
               start_pos |-> 0, end_pos |-> Len(text)]>>

get_optimal_chunk_size(section) ==
    IF section.section_type = "numbered_item"
    THEN IF Len(section.content) < SMALL_ITEM_SIZE
         THEN Len(section.content) + SMALL_ITEM_MARGIN
         ELSE IF Len(section.content) < MEDIUM_ITEM_SIZE THEN NUMBERED_ITEM_SIZE
         ELSE BASE_SIZE
    ELSE BASE_SIZE

should_keep_together(section) ==
    \/ Len(section.content) < KEEP_TOGETHER_SIZE
    \/ /\ section.section_type = "numbered_item"
       /\ Len(section.content) < ITEM_KEEP_TOGETHER_SIZE

\* _process_section: the section whole, or split
_process_section(section) ==
    IF should_keep_together(section)
    THEN <<[start |-> section.start_pos, end |-> section.end_pos]>>
    ELSE _split_section_into_chunks(section, get_optimal_chunk_size(section),
                                    ChunkingConfig)

\* _create_semantic_chunks: the chunks of the sections, in order
RECURSIVE _create_semantic_chunks(_)
_create_semantic_chunks(sections) ==
    IF sections = <<>> THEN <<>>
    ELSE _process_section(Head(sections)) \o _create_semantic_chunks(Tail(sections))

\* create_chunks on a text without tables: char_start and char_end of
\* every chunk
create_chunks(text) == _create_semantic_chunks(_analyze_structure(text))

\* ------------------------------------------------------------------- Init
InitSearch ==
    /\ store = <<>>
    /\ search_cache = [k \in CacheKeys |-> None]
    /\ bm25_cache = [L \in InputLevels |-> None]
    /\ bm25 = None
    /\ bm25_initialized = FALSE
    /\ last = NoTask
    /\ dirty = [L \in Levels |-> FALSE]
    /\ deleted = {}

\* ------------------------------------------------------- connection pool
\* Lock-protected sections are single steps; the queue operations and the
\* writes made outside the lock are steps of their own.
InTransit == {client[t] : t \in Threads} \ {0}
FreeHandles == Handles \ (Range(available_connections) \cup active_connections
                          \cup InTransit)

\* _initialize_pool: up to min_connections clients, fewer when creation fails.
InitPool ==
    /\ \E n \in 0..min_connections :
          /\ available_connections = [i \in 1..n |-> i]
          /\ connection_count = n
    /\ active_connections = {}
    /\ pc = [t \in Threads |-> "idle"]
    /\ client = [t \in Threads |-> 0]
    /\ op = [t \in Threads |-> "none"]
    /\ hb_passed = [t \in Threads |-> FALSE]
    /\ outstanding = [t \in Threads |-> 0]
    /\ dead_dropped = {}
    /\ raised_exit = FALSE
    /\ db_error = FALSE
    /\ collection = 0
    /\ used_handle = 0

\* try: client.heartbeat() ... except: the handle is alive iff the call
\* did not raise.
HeartbeatAlive_Ignored(ok) == TRUE
HeartbeatAlive(ok) == ok

\* PooledChromaDBClient.__exit__: the handle goes back when it is truthy,
\* whether or not the body raised.
ExitReturns_OnSuccessOnly(h, raised) == h # 0 /\ ~raised
ExitReturns(h, raised) == h # 0

\* return_client(h) with heartbeat outcome ok: the pool after the call.
return_client(h, ok) ==
    IF h \in active_connections
    THEN [active |-> active_connections \ {h},
          available |-> IF ok /\ Len(available_connections) < max_connections
                        THEN Append(available_connections, h)
                        ELSE available_connections,
          count |-> IF ok /\ Len(available_connections) < max_connections
                    THEN connection_count
                    ELSE connection_count - 1]
    ELSE [active |-> active_connections,
          available |-> available_connections,
          count |-> connection_count]

\* get_client, first step: available_connections.get(timeout) for a
\* DatabaseService operation ("db") or the pool's health_check ("health").
BeginGet(t, o) ==
    /\ pc[t] = "idle"
    /\ op' = [op EXCEPT ![t] = o]
    /\ hb_passed' = [hb_passed EXCEPT ![t] = FALSE]
    /\ outstanding' = [outstanding EXCEPT ![t] = 0]
    /\ IF available_connections # <<>>
       THEN /\ client' = [client EXCEPT ![t] = Head(available_connections)]
            /\ available_connections' = Tail(available_connections)
            /\ pc' = [pc EXCEPT ![t] = "add_active"]
       ELSE /\ pc' = [pc EXCEPT ![t] = "create"]
            /\ UNCHANGED <<client, available_connections>>
    /\ UNCHANGED <<active_connections, connection_count, dead_dropped, raised_exit, db_error, collection, used_handle,
                   searchVars, auxVars>>

\* with self.lock: self.active_connections.add(client)
AddActive(t) ==
    /\ pc[t] \in {"add_active", "add_active_wait"}
    /\ active_connections' = active_connections \cup {client[t]}
    /\ pc' = [pc EXCEPT ![t] = IF pc[t] = "add_active" THEN "heartbeat"
                                ELSE "heartbeat_wait"]
    /\ UNCHANGED <<available_connections, connection_count, client, op,
                   hb_passed, outstanding, dead_dropped, raised_exit, db_error, collection, used_handle,
                   searchVars, auxVars>>

\* The dead handle leaves the active set and the count drops by one.
DropDead(t) ==
    /\ active_connections' = active_connections \ {client[t]}
    /\ connection_count' = connection_count - 1
    /\ dead_dropped' = dead_dropped \cup {client[t]}
    /\ client' = [client EXCEPT ![t] = 0]
    /\ UNCHANGED <<outstanding>>

HandOut(t) ==
    /\ outstanding' = [outstanding EXCEPT ![t] = 1]
    /\ pc' = [pc EXCEPT ![t] = "got"]
    /\ UNCHANGED <<active_connections, connection_count, dead_dropped, client>>

\* Where get_client goes on after it discarded a dead handle: to the creation
\* of a new client after the first one, to "return None" after the second.
AfterDeadHandle_CreateAgain(position) == "create"

AfterDeadHandle(position) ==
    IF position = "heartbeat" THEN "create" ELSE "got"

\* Heartbeat of the handle taken from the queue at the first step.
CheckHeartbeat(t) ==
    /\ pc[t] = "heartbeat"
    /\ \E ok \in BOOLEAN :
          /\ hb_passed' = [hb_passed EXCEPT ![t] = ok]
          /\ IF HeartbeatAlive(ok)
             THEN HandOut(t)
             ELSE DropDead(t) /\ pc' = [pc EXCEPT ![t] = AfterDeadHandle(pc[t])]
    /\ UNCHANGED <<available_connections, op, raised_exit, db_error, collection, used_handle,
                   searchVars, auxVars>>

\* with self.lock: if connection_count < max_connections: _create_client()
CreateClient(t) ==
    /\ pc[t] = "create"
    /\ \E created \in BOOLEAN :
          IF connection_count < max_connections /\ FreeHandles # {} /\ created
          THEN /\ client' = [client EXCEPT ![t] = MinOf(FreeHandles)]
               /\ active_connections' = active_connections \cup {MinOf(FreeHandles)}
               /\ connection_count' = connection_count + 1
               /\ dead_dropped' = dead_dropped \ {MinOf(FreeHandles)}
               /\ hb_passed' = [hb_passed EXCEPT ![t] = TRUE]
               /\ outstanding' = [outstanding EXCEPT ![t] = 1]
               /\ pc' = [pc EXCEPT ![t] = "got"]
          ELSE /\ pc' = [pc EXCEPT ![t] = "wait"]
               /\ UNCHANGED <<client, active_connections, connection_count,
                              dead_dropped, hb_passed, outstanding>>
    /\ UNCHANGED <<available_connections, op, raised_exit, db_error, collection, used_handle,
                   searchVars, auxVars>>

\* available_connections.get(timeout=remaining_timeout), or the timeout ran out.
WaitAvailable(t) ==
    /\ pc[t] = "wait"
    /\ \/ /\ available_connections # <<>>
          /\ client' = [client EXCEPT ![t] = Head(available_connections)]
          /\ available_connections' = Tail(available_connections)
          /\ hb_passed' = [hb_passed EXCEPT ![t] = FALSE]
          /\ pc' = [pc EXCEPT ![t] = "add_active_wait"]
       \/ /\ pc' = [pc EXCEPT ![t] = "got"]
          /\ UNCHANGED <<client, available_connections, hb_passed>>
    /\ UNCHANGED <<active_connections, connection_count, op, outstanding,
                   dead_dropped, raised_exit, db_error, collection, used_handle,
                   searchVars, auxVars>>

\* Heartbeat of the handle taken from the queue after waiting.
CheckHeartbeatWait(t) ==
    /\ pc[t] = "heartbeat_wait"
    /\ \E ok \in BOOLEAN :
          /\ hb_passed' = [hb_passed EXCEPT ![t] = ok]
          /\ IF HeartbeatAlive(ok)
             THEN HandOut(t)
             ELSE DropDead(t) /\ pc' = [pc EXCEPT ![t] = AfterDeadHandle(pc[t])]
    /\ UNCHANGED <<available_connections, op, raised_exit, db_error, collection, used_handle,
                   searchVars, auxVars>>

\* The caller of get_client is done with the handle: the pool after
\* return_client when returns holds, the pool as it is otherwise.
Release(t, returns, raised, ok) ==
    /\ IF returns
       THEN /\ active_connections' = return_client(client[t], ok).active
            /\ available_connections' = return_client(client[t], ok).available
            /\ connection_count' = return_client(client[t], ok).count
            /\ outstanding' = [outstanding EXCEPT ![t] = @ - 1]
       ELSE UNCHANGED <<active_connections, available_connections,
                        connection_count, outstanding>>
    /\ pc' = [pc EXCEPT ![t] = "idle"]
    /\ client' = [client EXCEPT ![t] = 0]
    /\ op' = [op EXCEPT ![t] = "none"]
    /\ hb_passed' = [hb_passed EXCEPT ![t] = FALSE]
    /\ raised_exit' = (raised /\ client[t] # 0)
    /\ db_error' = (op[t] = "db" /\ raised /\ client[t] = 0)
    /\ UNCHANGED <<dead_dropped, searchVars, auxVars>>

\* A DatabaseService operation: the body of "with PooledChromaDBClient(...)"
\* raises or returns, then __exit__ runs.
ExitOperation(t) ==
    /\ pc[t] = "got"
    /\ op[t] = "db"
    /\ \E raised, ok \in BOOLEAN :
          /\ client[t] = 0 => raised
          /\ Release(t, ExitReturns(client[t], raised), raised, ok)
    /\ UNCHANGED <<collection, used_handle>>

\* DatabaseService.get_collection, called by SearchService.__init__: the
\* collection object is made from the borrowed client and returned out of
\* the with block, whose __exit__ gives the client back to the pool.
GetCollectionReturn(t) ==
    /\ pc[t] = "got"
    /\ op[t] = "collection"
    /\ \E ok \in BOOLEAN :
          Release(t, ExitReturns(client[t], client[t] = 0), client[t] = 0, ok)
    /\ collection' = IF client[t] # 0 THEN client[t] ELSE collection
    /\ UNCHANGED used_handle

\* self.collection.get(...) in _ensure_bm25_initialized: the request goes out
\* on the client the collection object was made from
CollectionGet ==
    /\ collection # 0
    /\ used_handle' = collection
    /\ UNCHANGED <<available_connections, active_connections, connection_count,
                   pc, client, op, hb_passed, outstanding, dead_dropped,
                   raised_exit, db_error, collection, searchVars, auxVars>>

\* ChromaDBPool.health_check: if client: self.return_client(client)
HealthCheckReturn(t) ==
    /\ pc[t] = "got"
    /\ op[t] = "health"
    /\ \E ok \in BOOLEAN : Release(t, client[t] # 0, FALSE, ok)
    /\ UNCHANGED <<collection, used_handle>>

\* close_all, first step: with self.lock: empty active_connections
CloseActive(t) ==
    /\ pc[t] = "idle"
    /\ active_connections' = {}
    /\ pc' = [pc EXCEPT ![t] = "drain"]
    /\ op' = [op EXCEPT ![t] = "close"]
    /\ outstanding' = [outstanding EXCEPT ![t] = 0]
    /\ UNCHANGED <<available_connections, connection_count, client,
                   hb_passed, dead_dropped, raised_exit, db_error, collection, used_handle,
                   searchVars, auxVars>>

\* close_all: while not available_connections.empty(): get_nowait()
CloseDrain(t) ==
    /\ pc[t] = "drain"
    /\ IF available_connections # <<>>
       THEN /\ available_connections' = Tail(available_connections)
            /\ UNCHANGED pc
       ELSE /\ pc' = [pc EXCEPT ![t] = "reset"]
            /\ UNCHANGED available_connections
    /\ UNCHANGED <<active_connections, connection_count, client, op,
                   hb_passed, outstanding, dead_dropped, raised_exit, db_error, collection, used_handle,
                   searchVars, auxVars>>

\* close_all, last step: self.connection_count = 0
CloseReset(t) ==
    /\ pc[t] = "reset"
    /\ connection_count' = 0
    /\ pc' = [pc EXCEPT ![t] = "idle"]
    /\ op' = [op EXCEPT ![t] = "none"]
    /\ UNCHANGED <<available_connections, active_connections, client,
                   hb_passed, outstanding, dead_dropped, raised_exit, db_error, collection, used_handle,
                   searchVars, auxVars>>

InitAux ==
    /\ fault = [cache_down |-> FALSE, embed_failed |-> FALSE]
    /\ pure = [fn |-> "none"]
    /\ task = NoCeleryTask
    /\ doc_status = [d \in Docs |-> "PENDING"]
    /\ svc = InitService
    /\ thr = [t \in RaceTasks |-> IdleTask]

Init == InitSearch /\ InitPool /\ InitAux

HybridSearchStep ==
    \E q \in Queries, L \in Levels, cacheOk, getOk, rrOk \in {TRUE}, vecOk \in BOOLEAN :
        HybridSearchTask(q, L, cacheOk, getOk, vecOk, rrOk) /\ UNCHANGED auxVars

RagQueryStep ==
    \E q \in Queries, L \in Levels, vecOk, rrOk \in BOOLEAN :
        RagQueryTask(q, L, vecOk, rrOk) /\ UNCHANGED auxVars

ProcessDocumentStep ==
    \E d \in Docs, n \in 1..MaxChunks,
       outcome \in {"ok", "fail_before_save", "fail_after_save"},
       dupRaises \in BOOLEAN, cleanupOk \in BOOLEAN :
        ProcessDocumentTask(d, LevelOf(d), n, 1, outcome, dupRaises, cleanupOk)
        /\ UNCHANGED auxVars

DeleteDocumentStep ==
    \E d \in Docs, ok \in BOOLEAN : DeleteDocumentTask(d, ok) /\ UNCHANGED auxVars

Next ==
    \/ HybridSearchStep
    \/ RagQueryStep
    \/ ProcessDocumentStep
    \/ DeleteDocumentStep

Spec == Init /\ [][Next]_vars

\* Retrievals and re-initialisation while the cache store or the embedding
\* service may be down.
FaultIngestStep ==
    \E d \in Docs :
        ProcessDocumentTask(d, LevelOf(d), 1, 1, "ok", FALSE, TRUE) /\ UNCHANGED auxVars

HybridSearchFaultStep ==
    \E q \in {x \in Queries : ~x.upper}, L \in Levels, cacheOk, vecOk \in BOOLEAN :
        /\ HybridSearchTask(q, L, cacheOk, TRUE, vecOk, TRUE)
        /\ fault' = [cache_down |-> ~cacheOk,
                     embed_failed |-> ~vecOk /\ ~last'.from_cache]
        /\ UNCHANGED <<pure, task, doc_status, raceVars>>

RagQueryFaultStep ==
    \E q \in {x \in Queries : ~x.upper}, L \in Levels, vecOk \in BOOLEAN :
        /\ RagQueryTask(q, L, vecOk, TRUE)
        /\ fault' = [cache_down |-> FALSE, embed_failed |-> ~vecOk]
        /\ UNCHANGED <<pure, task, doc_status, raceVars>>

ReinitializeBm25Step ==
    \E L \in Levels, cacheOk \in BOOLEAN :
        /\ ReinitializeBm25Task(L, cacheOk, TRUE)
        /\ fault' = [cache_down |-> ~cacheOk, embed_failed |-> FALSE]
        /\ UNCHANGED <<pure, task, doc_status, raceVars>>

FaultNext ==
    \/ FaultIngestStep
    \/ HybridSearchFaultStep
    \/ RagQueryFaultStep
    \/ ReinitializeBm25Step

FaultSpec == Init /\ [][FaultNext]_vars

\* the document that is ingested and reprocessed
IngestDocs == {1}

\* Ingest, reprocessing and queries as Celery tasks with their retries.
SubmitIngestStep ==
    \E d \in IngestDocs, n \in 1..MaxRunChunks, ver \in 1..NumVersions :
        SubmitIngest(d, n, ver)

AttemptIngestStep ==
    \E outcome \in {"ok", "fail_before_save", "fail_after_save"},
       dupRaises, cleanupOk, statusOk \in BOOLEAN :
        AttemptIngest(outcome, dupRaises, cleanupOk, statusOk)

SubmitQueryStep ==
    \E kind \in {"rag_query", "hybrid_search"} : SubmitQuery(kind, MaxLevel)

AttemptQueryStep ==
    \E servicesOk \in BOOLEAN :
        AttemptQuery([word |-> 1, upper |-> FALSE], servicesOk)

IngestNext ==
    \/ SubmitIngestStep
    \/ AttemptIngestStep
    \/ SubmitQueryStep
    \/ AttemptQueryStep

IngestSpec == Init /\ [][IngestNext]_vars

\* Tasks and the HTTP endpoint with any access_level a caller can send.
ApiRagQueryStep ==
    \E raw \in RawLevels, vecOk \in BOOLEAN :
        /\ create_rag_query_task([word |-> 1, upper |-> FALSE], raw, vecOk, TRUE)
        /\ UNCHANGED auxVars

ProcessDocumentRawStep ==
    \E d \in IngestDocs, raw \in {r \in RawLevels : r.is_int},
       outcome \in {"ok", "fail_before_save"} :
        /\ ProcessDocumentRaw(d, raw, outcome)
        /\ UNCHANGED auxVars

\* retrieval with a level outside [1, 100] (valid levels are in Spec)
HybridSearchRawStep ==
    \E raw \in {r \in RawLevels : r.is_int /\ r.value \notin Levels},
       vecOk \in BOOLEAN :
        /\ HybridSearchRaw([word |-> 1, upper |-> FALSE], raw, vecOk)
        /\ UNCHANGED auxVars

ValidationNext ==
    \/ ApiRagQueryStep
    \/ ProcessDocumentRawStep
    \/ HybridSearchRawStep

ValidationSpec == Init /\ [][ValidationNext]_vars

\* Two tasks of one worker inside SearchService at the same time.
RaceTaskStep ==
    \E t \in RaceTasks :
        /\ \/ \E L \in Levels : RaceStart(t, L)
           \/ RaceEnsure(t)
           \/ RaceAdopt(t)
           \/ RaceBuild(t)
           \/ RaceIdsStart(t)
           \/ RaceIdsAppend(t)
           \/ RaceCache(t)
           \/ RaceSearch(t)
        /\ UNCHANGED <<store, search_cache, bm25, bm25_initialized, last, dirty,
                       deleted, poolVars, fault, pure, task, doc_status>>

RaceRestartStep ==
    /\ RaceRestart
    /\ UNCHANGED <<store, search_cache, bm25, bm25_initialized, last, dirty,
                   deleted, poolVars, fault, pure, task, doc_status>>

\* the next document is ingested before the worker's first search
RaceIngestStep ==
    \E d \in Docs :
        /\ \A e \in Docs : WhereDoc(store, e) # <<>> <=> e < d
        /\ svc = InitService
        /\ \A t \in RaceTasks : thr[t].pc = "idle"
        /\ ProcessDocumentTask(d, LevelOf(d), 1, 1, "ok", TRUE, TRUE)
        /\ UNCHANGED auxVars

RaceNext ==
    \/ RaceTaskStep
    \/ RaceRestartStep
    \/ RaceIngestStep

RaceSpec == Init /\ [][RaceNext]_vars

\* One task and a Redis whose BM25 entries can be damaged by anyone.
\* The entries: a string that is no pickle, a dict without the index
\* structure, a dict whose ids list is shorter than its documents.
CorruptEntries(corpus) ==
    {[loadable |-> FALSE, data |-> NoData],
     PickleDumps([bm25 |-> None, docs |-> corpus, metadatas |-> corpus,
                  ids |-> [i \in 1..Len(corpus) |-> ChunkId(corpus[i])]]),
     PickleDumps([bm25 |-> Some(corpus), docs |-> corpus, metadatas |-> corpus,
                  ids |-> <<>>])}

CorruptEntryStep ==
    \E L \in Levels :
      \E e \in CorruptEntries(WhereLevelLte(store, L)) :
        /\ store # <<>>
        /\ thr[1].pc \in {"idle", "done"}
        /\ bm25_cache' = [bm25_cache EXCEPT ![L] = Some(e)]
        /\ UNCHANGED <<store, search_cache, bm25, bm25_initialized, last, dirty,
                       deleted, poolVars, auxVars>>

CorruptTaskStep ==
    /\ \/ \E L \in Levels : RaceStart(1, L)
       \/ RaceEnsure(1)
       \/ RaceAdopt(1)
       \/ RaceBuild(1)
       \/ RaceIdsStart(1)
       \/ RaceIdsAppend(1)
       \/ RaceCache(1)
       \/ RaceSearch(1)
    /\ UNCHANGED <<store, search_cache, bm25, bm25_initialized, last, dirty,
                   deleted, poolVars, fault, pure, task, doc_status>>

CorruptNext ==
    \/ CorruptTaskStep
    \/ CorruptEntryStep
    \/ RaceRestartStep
    \/ RaceIngestStep

CorruptSpec == Init /\ [][CorruptNext]_vars

\* Two documents are ingested one after the other, then a query runs on cold
\* caches; the same query is computed on the collection that the opposite
\* ingest order leaves.
save_chunks_to_chromadb(st, d, L, n, ver) == CollectionAdd(st, NewChunks(d, L, n, ver))

\* the documents that are ingested: one more than the query words, so that
\* two of them can both lack the word of the query
CommuteDocs == 1..(NumDocs + 1)

OppositeOrder(log) ==
    save_chunks_to_chromadb(
        save_chunks_to_chromadb(<<>>, log[2].doc, log[2].level, log[2].n, 1),
        log[1].doc, log[1].level, log[1].n, 1)

\* The result records of a hybrid_search on cold caches as the caller gets
\* them: each is a copy of its fused record, so it carries the rrf_score
ResultsWithRrf(st, q, L, params) ==
    LET ens == _ensure_bm25_initialized(st, bm25_cache, bm25, bm25_initialized,
                                        L, TRUE, TRUE)
        fused == _rrf_fusion(_vector_search(st, q, L, params.top_k, TRUE),
                             _bm25_search(ens.bm25, q, L, params.top_k),
                             params.vector_weight, params.bm25_weight)
        results == HybridOutcome(st, search_cache, bm25_cache, bm25,
                                 bm25_initialized, q, L, params,
                                 TRUE, TRUE, TRUE, TRUE).report.results
        rrf(c) == LET f == CHOOSE i \in 1..Len(fused) : fused[i].c = c
                  IN <<fused[f].kn, fused[f].kd>>
    IN [i \in 1..Len(results) |->
          [c |-> results[i].c, rerank_score |-> results[i].rerank_score,
           rrf_score |-> rrf(results[i].c)]]

CommuteIngestStep ==
    /\ pure.fn \in {"none", "process_document"}
    /\ Len(store) = 0 \/ pure.fn = "process_document"
    /\ \E d \in CommuteDocs, n \in 1..MaxCommuteChunks :
        /\ \A i \in 1..Len(store) : store[i].doc # d
        /\ ProcessDocumentTask(d, LevelOf(d), n, 1, "ok", FALSE, TRUE)
        /\ pure' = [fn |-> "process_document",
                    log |-> (IF pure.fn = "none" THEN <<>> ELSE pure.log)
                            \o <<[doc |-> d, level |-> LevelOf(d), n |-> n]>>]
        /\ UNCHANGED <<fault, task, doc_status, raceVars>>

CommuteQueryStep ==
    /\ pure.fn = "process_document"
    /\ Len(pure.log) = 2
    /\ \E q \in Queries, L \in Levels :
        /\ HybridSearchTask(q, L, TRUE, TRUE, TRUE, TRUE)
        /\ pure' = [fn |-> "hybrid_search", log |-> pure.log,
                    results |-> ResultsWithRrf(store, q, L, DefaultParams),
                    opposite |-> ResultsWithRrf(OppositeOrder(pure.log), q, L,
                                                DefaultParams)]
        /\ UNCHANGED <<fault, task, doc_status, raceVars>>

CommuteNext ==
    \/ CommuteIngestStep
    \/ CommuteQueryStep

CommuteSpec == Init /\ [][CommuteNext]_vars

\* batch_hybrid_search, one loop iteration at a time.  An element of queries
\* that is not a string makes hybrid_search raise (query[:100]); the cache
\* lookup swallows its own error and misses.
NotAString == NoQuery

BatchQueries ==
    UNION {[1..n -> Queries \cup {NotAString}] : n \in 1..MaxBatch}

BatchIngestStep ==
    /\ pure.fn = "none"
    /\ store = <<>>
    /\ \E d \in IngestDocs :
          ProcessDocumentTask(d, LevelOf(d), 1, 1, "ok", FALSE, TRUE)
    /\ UNCHANGED auxVars

\* self._ensure_bm25_initialized(access_level); batch_results = []; cache_hits = 0
BatchBeginStep ==
    /\ pure.fn = "none"
    /\ \E queries \in BatchQueries, L \in Levels, cacheOk \in BOOLEAN :
        \E ens \in {_ensure_bm25_initialized(store, bm25_cache, bm25,
                                              bm25_initialized, L, cacheOk, TRUE)} :
          /\ bm25' = ens.bm25
          /\ bm25_initialized' = ens.inited
          /\ bm25_cache' = ens.cache
          /\ pure' = [fn |-> "batch_hybrid_search", queries |-> queries,
                      access_level |-> L, i |-> 0, batch_results |-> <<>>,
                      cache_hits |-> 0, returned |-> FALSE]
    /\ UNCHANGED <<store, search_cache, last, dirty, deleted, poolVars,
                   fault, task, doc_status, raceVars>>

\* One pass of "for i, query in enumerate(queries)".  checkOk: the cache store
\* answers the lookup made by the loop; cacheOk: it answers the calls made
\* inside hybrid_search.
BatchIteration(checkOk, cacheOk) ==
    LET i == pure.i
        query == pure.queries[i + 1]
        L == pure.access_level
        cached_result == IF query = NotAString THEN None
                         ELSE get_cached_search_results(search_cache, query, L,
                                                        DefaultParams, checkOk)
        entry(result) == [query_index |-> i, query |-> query, result |-> result]
    IN IF cached_result # None
       THEN /\ pure' = [pure EXCEPT !.i = i + 1,
                                    !.cache_hits = @ + 1,
                                    !.batch_results = Append(@, entry(The(cached_result)))]
            /\ UNCHANGED <<search_cache, bm25_cache, bm25, bm25_initialized>>
       ELSE IF query = NotAString
       THEN /\ pure' = [pure EXCEPT !.i = i + 1,
                                    !.batch_results = Append(@, entry([success |-> FALSE]))]
            /\ UNCHANGED <<search_cache, bm25_cache, bm25, bm25_initialized>>
       ELSE \E out \in {HybridOutcome(store, search_cache, bm25_cache, bm25,
                                       bm25_initialized, query, L, DefaultParams,
                                       cacheOk, TRUE, TRUE, TRUE)} :
            /\ pure' = [pure EXCEPT !.i = i + 1,
                                    !.batch_results = Append(@, entry(out.report))]
            /\ search_cache' = out.scache
            /\ bm25_cache' = out.bcache
            /\ bm25' = out.bm25
            /\ bm25_initialized' = out.inited

BatchIterationStep ==
    /\ pure.fn = "batch_hybrid_search"
    /\ pure.i < Len(pure.queries)
    /\ \E checkOk, cacheOk \in BOOLEAN : BatchIteration(checkOk, cacheOk)
    /\ UNCHANGED <<store, last, dirty, deleted, poolVars,
                   fault, task, doc_status, raceVars>>

\* return result
BatchReturnStep ==
    /\ pure.fn = "batch_hybrid_search"
    /\ pure.i = Len(pure.queries)
    /\ ~pure.returned
    /\ pure' = [pure EXCEPT !.returned = TRUE]
    /\ UNCHANGED <<searchVars, poolVars, fault, task, doc_status, raceVars>>

BatchNext ==
    \/ BatchIngestStep
    \/ BatchBeginStep
    \/ BatchIterationStep
    \/ BatchReturnStep

BatchSpec == Init /\ [][BatchNext]_vars

\* The tokenizer on every text of up to MaxWords words.
TokenizeStep ==
    /\ pure.fn = "none"
    /\ \E words \in UNION {[1..n -> Lexemes] : n \in 1..MaxWords} :
        /\ pure' = [fn |-> "_improved_tokenize", words |-> words,
                    tokens |-> _improved_tokenize(words)]
        /\ UNCHANGED <<searchVars, poolVars, fault, task, doc_status, raceVars>>

TokenizeSpec == Init /\ [][TokenizeStep]_vars

\* Document texts: every text of up to MaxTextLen characters that has a
\* character other than whitespace.
Texts ==
    {t \in UNION {[1..n -> Chars] : n \in 1..MaxTextLen} :
        \E i \in 1..Len(t) : ~IsSpace(t[i])}

CreateChunksStep ==
    /\ pure.fn = "none"
    /\ \E text \in Texts :
        /\ pure' = [fn |-> "create_chunks", text |-> text,
                    chunks |-> create_chunks(text)]
        /\ UNCHANGED <<searchVars, poolVars, fault, task, doc_status, raceVars>>

ChunkingSpec == Init /\ [][CreateChunksStep]_vars

\* The splitting loops, one iteration per step, on every section content of
\* MaxChunkSize + 1 .. MaxSectionLen characters.  The configuration is drawn
\* small so that texts of this length are split: overlap, minimum size and
\* search ranges of a few characters.
SectionTexts == UNION {[1..n -> Chars] : n \in 2..MaxSectionLen}
SplitConfigs == [overlap : 0..2, min_size : {2}, sentence_range : {2},
                 item_range : {3}, basic : BOOLEAN]
SectionTypes == {"paragraph", "numbered_item"}

SplitBeginStep ==
    /\ pure.fn = "none"
    /\ \E text \in SectionTexts, chunk_size \in 1..MaxChunkSize, cfg \in SplitConfigs,
          section_type \in SectionTypes :
        /\ Len(text) > chunk_size
        /\ cfg.basic => section_type = "paragraph"
        /\ pure' = [fn |-> "split", text |-> text, chunk_size |-> chunk_size,
                    section_type |-> section_type,
                    cfg |-> cfg, st |-> SplitStart, iterations |-> 0]
        /\ UNCHANGED <<searchVars, poolVars, fault, task, doc_status, raceVars>>

SplitIterationStep ==
    /\ pure.fn = "split"
    /\ ~pure.st.done
    /\ pure.iterations <= MaxSectionLen
    /\ pure' = [pure EXCEPT
                  !.st = SplitIteration(pure.text, pure.section_type, 0,
                                        pure.chunk_size, pure.cfg, pure.st),
                  !.iterations = @ + 1]
    /\ UNCHANGED <<searchVars, poolVars, fault, task, doc_status, raceVars>>

SplitNext ==
    \/ SplitBeginStep
    \/ SplitIterationStep

SplitSpec == Init /\ [][SplitNext]_vars

\* ---------------------------------------------- functions on their own
\* Chunks and leg lists handed to _rrf_fusion: lists without repeated ids.
\* The record of a chunk in one leg may differ from its record in the other
\* (the content version).
FusionChunks == {[doc |-> d, idx |-> 0, level |-> 1, ver |-> v] : d \in 1..FusionDocs, v \in 1..NumVersions}
LegLists ==
    {s \in UNION {[1..n -> {[c |-> x, kn |-> 0, kd |-> 1] : x \in FusionChunks}] :
                   n \in 0..MaxLegLen} :
        \A i, j \in 1..Len(s) : i # j => ChunkId(s[i].c) # ChunkId(s[j].c)}
FusionWeights == {<<VECTOR_WEIGHT, 0>>, <<0, BM25_WEIGHT>>, <<VECTOR_WEIGHT, BM25_WEIGHT>>}
Ids(leg) == [i \in 1..Len(leg) |-> ChunkId(leg[i].c)]

RrfFusionStep ==
    /\ pure.fn = "none"
    /\ \E v \in LegLists, b \in LegLists, w \in FusionWeights :
        /\ pure' = [fn |-> "_rrf_fusion", vector_results |-> v, bm25_results |-> b,
                    vector_weight |-> w[1], bm25_weight |-> w[2],
                    out |-> _rrf_fusion(v, b, w[1], w[2])]
        /\ UNCHANGED <<searchVars, poolVars, fault, task, doc_status, raceVars>>

FusionSpec == Init /\ [][RrfFusionStep]_vars

\* Reranker answers for n candidates: the server's scores on the 0..10 scale
\* (in tenths), one per candidate, sorted descending; or the fallback answer.
RerankScores == {0, 5, 30, 50, 79, 80, 100}
Candidates(n) == [i \in 1..n |-> [c |-> [doc |-> i, idx |-> 0, level |-> 1, ver |-> 1],
                                  kn |-> 0, kd |-> 1]]
ServerAnswers(n) ==
    {SortDesc([i \in 1..n |-> [index |-> i, kn |-> f[i], kd |-> 1]]) :
        f \in [1..n -> RerankScores]}
ScoresOf(reranked) == {reranked[i].kn : i \in 1..Len(reranked)}
RangeOf(reranked) == MaxOf(ScoresOf(reranked)) - MinOf(ScoresOf(reranked))

RerankStep ==
    \E n \in 1..MaxCandidates :
      \E reranked \in ServerAnswers(n) :
        /\ pure' = [fn |-> "_rerank_results", reranked |-> reranked,
                    failed |-> FALSE,
                    out |-> AdaptiveFilter(Candidates(n), reranked)]
        /\ UNCHANGED <<searchVars, poolVars, fault, task, doc_status, raceVars>>

\* The reranker call failed: LocalRerankingService answers with _fallback_results.
RerankFailedStep ==
    \E n \in 1..MaxCandidates :
        /\ pure' = [fn |-> "_rerank_results",
                    reranked |-> _fallback_results(
                        [i \in 1..n |-> Candidates(n)[i].c], RERANK_TOP_K),
                    failed |-> TRUE,
                    out |-> _rerank_results(NoQuery, Candidates(n), RERANK_TOP_K, FALSE)]
        /\ UNCHANGED <<searchVars, poolVars, fault, task, doc_status, raceVars>>

\* Step 4 of hybrid_search on a fused list of n records: the rerank with the
\* adaptive filter when the list is not empty and rerank_top_k > 0, the
\* slice fused_results[:rerank_top_k] otherwise.
HybridRerankStep ==
    \E n \in 0..MaxCandidates, q \in Queries, top \in {0, RERANK_TOP_K}, rrOk \in BOOLEAN :
        /\ pure' = [fn |-> "hybrid_search", fused_results |-> Candidates(n),
                    rerank_top_k |-> top, failed |-> ~rrOk,
                    out |-> FuseAndRerank(Candidates(n), <<>>, q,
                               [DefaultParams EXCEPT !.rerank_top_k = top], rrOk)]
        /\ UNCHANGED <<searchVars, poolVars, fault, task, doc_status, raceVars>>

RerankNext == RerankStep \/ RerankFailedStep \/ HybridRerankStep

RerankSpec == Init /\ [][RerankNext]_vars

\* A SearchService is constructed while DatabaseService operations run, and
\* then uses its collection.
CollectionThreads == 1..2

CollectionNext ==
    \/ \E t \in CollectionThreads : BeginGet(t, "db")
    \/ \E t \in CollectionThreads : collection = 0 /\ BeginGet(t, "collection")
    \/ \E t \in CollectionThreads : AddActive(t)
    \/ \E t \in CollectionThreads : CheckHeartbeat(t)
    \/ \E t \in CollectionThreads : CreateClient(t)
    \/ \E t \in CollectionThreads : WaitAvailable(t)
    \/ \E t \in CollectionThreads : CheckHeartbeatWait(t)
    \/ \E t \in CollectionThreads : ExitOperation(t)
    \/ \E t \in CollectionThreads : GetCollectionReturn(t)
    \/ CollectionGet

CollectionSpec == Init /\ [][CollectionNext]_vars

\* Threads of one worker process using the pool concurrently.
PoolNext ==
    \/ \E t \in Threads : BeginGet(t, "db")
    \/ \E t \in Threads : BeginGet(t, "health")
    \/ \E t \in Threads : AddActive(t)
    \/ \E t \in Threads : CheckHeartbeat(t)
    \/ \E t \in Threads : CreateClient(t)
    \/ \E t \in Threads : WaitAvailable(t)
    \/ \E t \in Threads : CheckHeartbeatWait(t)
    \/ \E t \in Threads : ExitOperation(t)
    \/ \E t \in Threads : HealthCheckReturn(t)
    \/ \E t \in Threads : CloseActive(t)
    \/ \E t \in Threads : CloseDrain(t)
    \/ \E t \in Threads : CloseReset(t)

PoolSpec == Init /\ [][PoolNext]_vars


\* ----------------------------------------------------------------- claims
IsRetrieval == last.op \in {"hybrid_search", "rag_query"}
IsWrite == last.op \in {"process_document", "delete_document"}
IndexHasLevelAbove(L) ==
    /\ bm25 # None
    /\ \E i \in 1..Len(The(bm25).docs) : The(bm25).docs[i].level > L

\* C1: every chunk returned by a retrieval at clearance L (hybrid_search or
\* rag_query, computed or served from the result cache) carries
\* metadata.access_level <= L.
C1_AccessFilter ==
    IsRetrieval =>
        \A i \in 1..Len(last.results) : last.results[i].c.level <= last.level

\* A hybrid_search below the level of a chunk held by the in-process index
\* returned results.
C1_Witness ==
    /\ last.op = "hybrid_search"
    /\ last.results # <<>>
    /\ IndexHasLevelAbove(last.level)

\* C2: when a write path (process_document, delete_document) returns success,
\* the result cache and the BM25 cache are empty and the in-process BM25
\* instance is reset.
C2_WritesInvalidate ==
    (IsWrite /\ last.success) =>
        /\ \A k \in CacheKeys : search_cache[k] = None
        /\ \A L \in Levels : bm25_cache[L] = None
        /\ ~bm25_initialized

\* C3: the first hybrid_search at level L after a completed ingest or delete
\* of a document with access level <= L rebuilds the BM25 index.
C3_RebuildAfterWrite ==
    (last.op = "hybrid_search" /\ last.was_dirty) => last.rebuilt

\* C4: after delete_document(d) returned success no hybrid_search returns a
\* chunk of d.
C4_NoDeletedChunks ==
    last.op = "hybrid_search" =>
        \A i \in 1..Len(last.results) : last.results[i].c.doc \notin deleted

\* C5: a computed hybrid_search at level L scores the lexical leg against an
\* index built from all chunks with access_level <= L: the index in use was
\* not built for a lower level L' that leaves out a stored chunk with
\* L' < access_level <= L.
C5_IndexPerLevel ==
    (last.op = "hybrid_search" /\ ~last.from_cache /\ bm25 # None) =>
        \A i \in 1..Len(store) :
            ~(The(bm25).access_level < store[i].level /\ store[i].level <= last.level)

\* C10: two successive hybrid_search calls with the same (query, access_level,
\* params) return the same result sequence with the same rerank scores, and
\* the second report is served from the cache.
C10_Determinism ==
    (last.op = "hybrid_search" /\ last.repeat) =>
        (last.same_results /\ last.from_cache)

\* The second of two equal successive calls returned a non-empty result.
C10_Witness ==
    /\ last.op = "hybrid_search"
    /\ last.repeat
    /\ last.results # <<>>

PoolSize == Cardinality(active_connections) + Len(available_connections)
AllIdle == \A t \in Threads : pc[t] = "idle"

\* C6: the handles in use plus the handles waiting in the queue never exceed
\* max_connections, whatever the interleaving of get_client, return_client,
\* health_check and close_all.
C6_PoolBound == PoolSize <= max_connections

\* C7: in every state of the pool the handles in use plus the handles in the
\* queue equal connection_count, and connection_count is at most
\* max_connections.
C7_PoolCount ==
    /\ PoolSize = connection_count
    /\ connection_count <= max_connections

\* C8: a handle get_client hands out passed a heartbeat in that call; a
\* handle whose heartbeat failed in get_client is in neither the active set
\* nor the queue, and the step that drops it lowers connection_count by
\* exactly one.
C8_Inv ==
    /\ \A t \in Threads :
          (pc[t] = "got" /\ client[t] # 0) => hb_passed[t]
    /\ dead_dropped \cap (active_connections \cup Range(available_connections)) = {}
C8_Drop ==
    \A h \in Handles :
        (h \notin dead_dropped /\ h \in dead_dropped') =>
            /\ connection_count' = connection_count - 1
            /\ h \notin active_connections'
            /\ h \notin Range(available_connections')
C8_NoDeadHandle == [](C8_Inv) /\ [][C8_Drop]_vars

\* A handle failed its heartbeat inside get_client and was dropped while
\* another thread holds a handle that get_client handed out.
C8_Witness ==
    /\ dead_dropped # {}
    /\ \E t \in Threads : pc[t] = "got" /\ client[t] # 0

\* C9: a DatabaseService operation that borrowed a handle has called
\* return_client for it exactly once when it is over, also when its body
\* raised; with no call in progress the active set is empty.
C9_ReturnedOnce ==
    /\ \A t \in Threads : outstanding[t] \in {0, 1}
    /\ \A t \in Threads : pc[t] = "idle" => outstanding[t] = 0
    /\ AllIdle => active_connections = {}

\* All threads are idle after an operation whose body raised while it held
\* a handle, and a handle is back in the queue.
C9_Witness ==
    /\ AllIdle
    /\ raised_exit
    /\ available_connections # <<>>

\* C11: with the cache store down, a hybrid_search or a reinitialize_bm25
\* leaves both caches as they were (reads miss, writes and invalidations do
\* nothing), and the hybrid_search returns a computed success report.
C11_Step ==
    (fault'.cache_down /\ last'.op \in {"hybrid_search", "reinitialize_bm25"}) =>
        /\ search_cache' = search_cache
        /\ bm25_cache' = bm25_cache
        /\ last'.success
        /\ ~last'.from_cache
C11_CacheErrorsContained == [][C11_Step]_vars

\* A hybrid_search ran with the cache store down while the result cache held
\* an entry for its key and the index had to be built.
C11_Witness ==
    /\ fault.cache_down
    /\ last.op = "hybrid_search"
    /\ last.rebuilt
    /\ search_cache[_generate_search_cache_key(last.query, last.level,
                                               DefaultParams)] # None

\* C20: a retrieval whose embedding call failed does not report success, and
\* a hybrid_search leaves no entry for its key in the result cache.
C20_EmbeddingFailureSurfaces ==
    (IsRetrieval /\ fault.embed_failed) =>
        /\ ~last.success
        /\ last.op = "hybrid_search" =>
              search_cache[_generate_search_cache_key(last.query, last.level,
                                                      DefaultParams)] = None

\* C14: with bm25_weight = 0 the fused list is the vector leg's list, and
\* with vector_weight = 0 it is the BM25 leg's list (members and order).
C14_ZeroWeightIsOneLeg ==
    pure.fn = "_rrf_fusion" =>
        /\ pure.bm25_weight = 0 => Ids(pure.out) = Ids(pure.vector_results)
        /\ pure.vector_weight = 0 => Ids(pure.out) = Ids(pure.bm25_results)

IsRerank == pure.fn = "_rerank_results"

\* C12: when the rerank scores of the candidates have range > 2, every
\* returned chunk has rerank_score >= 0.8 * best, whether the reranker
\* answered or its call failed.
C12_WideRangeKeepsTop ==
    (IsRerank /\ RangeOf(pure.reranked) > 20) =>
        \A i \in 1..Len(pure.out) :
            10 * pure.out[i].rerank_score >= 8 * MaxOf(ScoresOf(pure.reranked))

\* Scores of range > 2 where one candidate is returned and another, scored
\* between 0.7 and 0.8 of the best, is not.
C12_Witness ==
    /\ IsRerank
    /\ RangeOf(pure.reranked) > 20
    /\ pure.out # <<>>
    /\ \E i \in 1..Len(pure.reranked) :
          /\ 10 * pure.reranked[i].kn >= 7 * MaxOf(ScoresOf(pure.reranked))
          /\ \A j \in 1..Len(pure.out) :
                pure.out[j].c.doc # pure.reranked[i].index

\* The share of the best score (in tenths) that is the general threshold.
GeneralShare(range) == IF range > 20 THEN 4 ELSE IF range > 10 THEN 3 ELSE 5
BelowGeneral(reranked) ==
    10 * MaxOf(ScoresOf(reranked)) <
        GeneralShare(RangeOf(reranked)) * MaxOf(ScoresOf(reranked))

\* C13: when the best rerank score is below the general threshold the
\* result is empty, and some reranker answer on the 0..10 scale is rejected
\* this way.
C13_OffCorpusRejected ==
    /\ (IsRerank /\ BelowGeneral(pure.reranked)) => pure.out = <<>>
    /\ \E n \in 1..MaxCandidates : \E reranked \in ServerAnswers(n) :
          BelowGeneral(reranked)

\* C15: after process_document succeeded for a document, the vector store
\* holds for it exactly the chunks of that run: ids doc_0 .. doc_(n-1) with
\* the content of the run and nothing left of an earlier run.
C15_ReprocessReplaces ==
    (last.op = "process_document" /\ last.success) =>
        WhereDoc(store, last.doc) =
            NewChunks(last.doc, last.level, last.n, last.ver)

\* C16: a failed attempt of process_document leaves no chunk of the document
\* in the vector store before its retry, and when the last attempt failed
\* the document's status is ERROR and the store holds no chunk of it.
C16_FailedIngestCleansUp ==
    (task.kind = "process_document" /\ last.op = "process_document"
       /\ last.doc = task.doc /\ ~last.success) =>
        /\ WhereDoc(store, task.doc) = <<>>
        /\ task.state = "failed" => doc_status[task.doc] = "ERROR"

\* The delay before the first retry is the base and each later delay is
\* longer than the one before it.
Backoff(delays, base) ==
    /\ delays # <<>> => delays[1] = base
    /\ \A i \in 2..Len(delays) : delays[i] > delays[i - 1]

\* C17: an ingest task is retried at most 3 times and a query task at most
\* 2 times, then ends in failure; the delay before the n-th retry grows
\* exponentially from the base, 60 s for ingest and 30 s for a query.
C17_BoundedBackoff ==
    /\ task.kind = "process_document" =>
          task.retries <= 3 /\ Backoff(task.delays, 60)
    /\ task.kind \in {"rag_query", "hybrid_search"} =>
          task.retries <= 2 /\ Backoff(task.delays, 30)

ValidLevel(L) == MIN_ACCESS_LEVEL <= L /\ L <= MAX_ACCESS_LEVEL

\* C18: an ingest or retrieval task whose access_level is missing or outside
\* [1, 100] fails: it reports no success, returns no chunk, and no chunk
\* with a level outside [1, 100] is ever in the vector store.
C18_AccessLevelValidated ==
    /\ (last.op \in {"process_document", "hybrid_search", "rag_query"}
          /\ ~ValidLevel(last.level)) =>
            ~last.success /\ last.results = <<>>
    /\ \A i \in 1..Len(store) : ValidLevel(store[i].level)

\* C19: whatever the interleaving of two tasks in _ensure_bm25_initialized
\* and _bm25_search, every result of a search takes its score, its content,
\* its metadata and its id from the same chunk of one build.
C19_SearchReadsOneBuild ==
    \A t \in RaceTasks :
        \A i \in 1..Len(thr[t].results) :
            LET r == thr[t].results[i]
            IN /\ r.scored = r.metadata
               /\ r.content = r.metadata
               /\ r.id = ChunkId(r.metadata)

\* the fields of the service form one index: the structure is there and
\* the three lists have one entry per indexed chunk
StructurallyValid(s) ==
    /\ s.bm25 # None
    /\ Len(The(s.bm25)) = Len(s.bm25_docs)
    /\ Len(s.bm25_docs) = Len(s.bm25_metadatas)
    /\ Len(s.bm25_metadatas) = Len(s.bm25_ids)

\* C21: a cached BM25 entry that cannot be unmarshalled or is structurally
\* invalid is never adopted: when _ensure_bm25_initialized has marked the
\* service initialized, its fields are a structurally valid index.
C21_CorruptEntryNotAdopted ==
    svc.initialized => StructurallyValid(svc)

\* C22: the [char_start, char_end) intervals of a document's chunks cover
\* every non-whitespace character of its text, and every chunk has
\* char_start < char_end.
C22_ChunksCoverText ==
    pure.fn = "create_chunks" =>
        /\ \A p \in 0..(Len(pure.text) - 1) :
              ~IsSpace(At(pure.text, p)) =>
                 \E i \in 1..Len(pure.chunks) :
                    pure.chunks[i].start <= p /\ p < pure.chunks[i].end
        /\ \A i \in 1..Len(pure.chunks) :
              pure.chunks[i].start < pure.chunks[i].end

\* an iteration of a splitting loop ends the loop or moves the position on
C30_Progress ==
    (pure.fn = "split" /\ pure'.fn = "split"
       /\ pure'.iterations = pure.iterations + 1) =>
        \/ pure'.st.done
        \/ pure'.st.current_pos > pure.st.current_pos

\* C30: every iteration of the loops of _split_section_into_chunks and
\* _split_text_into_chunks strictly increases the current position or ends
\* the loop, and the loop has run at most len(text) times.
C30_SplittingTerminates ==
    /\ [](pure.fn = "split" =>
            /\ pure.iterations <= Len(pure.text)
            /\ pure.st.current_pos < Len(pure.text))
    /\ [][C30_Progress]_vars

\* a loop that went on after the boundary search moved the end back to the
\* start of the piece
C30_Witness ==
    /\ pure.fn = "split"
    /\ pure.st.done
    /\ pure.iterations >= 3
    /\ Len(pure.st.chunks) < pure.iterations

Count(seq, S) == Cardinality({i \in 1..Len(seq) : seq[i] \in S})

\* C23: the tokenizer emits DATE once for every date of the text, NUMBER
\* once for every decimal number that is not a year, and every 4-digit year
\* as the year itself.
C23_SpecialTokensKept ==
    pure.fn = "_improved_tokenize" =>
        /\ Count(pure.tokens, {"DATE"}) = Count(pure.words, IsoDates \cup DmyDates)
        /\ Count(pure.tokens, {"NUMBER"}) = Count(pure.words, Decimals)
        /\ \A y \in Years : Count(pure.tokens, {y}) = Count(pure.words, {y})

\* C24: after two documents with different doc_ids were ingested, a query on
\* cold caches returns the results it returns after the opposite ingest order.
C24_IngestCommutes ==
    pure.fn = "hybrid_search" => pure.results = pure.opposite

\* the share of one leg in the score of id: weight / (60 + rank + 1) with
\* the zero-based rank of id in the leg, 0 when the leg does not hold id
LegShare(leg, id, weight) ==
    IF \E r \in 0..(Len(leg) - 1) : ChunkId(leg[r + 1].c) = id
    THEN LET r == CHOOSE r \in 0..(Len(leg) - 1) : ChunkId(leg[r + 1].c) = id
         IN [kn |-> weight, kd |-> RRF_K + r + 1]
    ELSE [kn |-> 0, kd |-> 1]

\* C25: _rrf_fusion returns every chunk id of the two legs exactly once, with
\* rrf_score the sum of the shares of the legs that hold it, sorted by
\* non-increasing rrf_score; for an id in both legs the record is the one of
\* the vector leg.
C25_RrfFusion ==
    pure.fn = "_rrf_fusion" =>
        LET v == pure.vector_results
            b == pure.bm25_results
            out == pure.out
        IN /\ \A i, j \in 1..Len(out) : i # j => ChunkId(out[i].c) # ChunkId(out[j].c)
           /\ Range(Ids(out)) = Range(Ids(v)) \cup Range(Ids(b))
           /\ \A i \in 1..Len(out) :
                 LET sv == LegShare(v, ChunkId(out[i].c), pure.vector_weight)
                     sb == LegShare(b, ChunkId(out[i].c), pure.bm25_weight)
                 IN out[i].kn * sv.kd * sb.kd
                        = (sv.kn * sb.kd + sb.kn * sv.kd) * out[i].kd
           /\ \A i, j \in 1..Len(out) : i < j => ~KeyGT(out[j], out[i])
           /\ \A i \in 1..Len(out), k \in 1..Len(v) :
                 ChunkId(v[k].c) = ChunkId(out[i].c) => out[i].c = v[k].c

\* A fusion of two legs that hold one id with different records, and a
\* second id found by the BM25 leg only.
C25_Witness ==
    /\ pure.fn = "_rrf_fusion"
    /\ Len(pure.out) >= 2
    /\ pure.vector_weight > 0 /\ pure.bm25_weight > 0
    /\ \E k \in 1..Len(pure.vector_results), m \in 1..Len(pure.bm25_results) :
          /\ ChunkId(pure.vector_results[k].c) = ChunkId(pure.bm25_results[m].c)
          /\ pure.vector_results[k].c # pure.bm25_results[m].c
    /\ \E m \in 1..Len(pure.bm25_results) :
          ChunkId(pure.bm25_results[m].c) \notin Range(Ids(pure.vector_results))

\* C26: inside one get_client call, after the first dead handle is discarded
\* the call goes on to at most one further handle: a new client (only while
\* connection_count < max_connections) that is handed out at once, or else
\* one handle from the queue; when that one fails its heartbeat, or the
\* timeout runs out, the call returns None, and the DatabaseService
\* operation that got None ends with an error.
C26_Step ==
    \A t \in Threads :
        /\ (pc[t] = "heartbeat" /\ pc'[t] # "heartbeat" /\ client'[t] = 0)
               => pc'[t] = "create"
        /\ (pc[t] = "create" /\ pc'[t] # "create")
               => \/ pc'[t] = "wait" /\ client'[t] = 0
                  \/ /\ pc'[t] = "got" /\ client'[t] # 0
                     /\ connection_count < max_connections
        /\ (pc[t] = "wait" /\ pc'[t] # "wait")
               => \/ pc'[t] = "add_active_wait" /\ client'[t] # 0
                  \/ pc'[t] = "got" /\ client'[t] = 0
        /\ (pc[t] = "heartbeat_wait" /\ pc'[t] # "heartbeat_wait")
               => pc'[t] = "got" /\ (client'[t] = 0 \/ hb_passed'[t])
        /\ (pc[t] = "got" /\ op[t] = "db" /\ client[t] = 0 /\ pc'[t] = "idle")
               => db_error'

ServedFromCache(result) == "from_cache" \in DOMAIN result /\ result.from_cache

\* one entry per query, in the order of the queries, a failure entry for a
\* query that raised
BatchShape ==
    /\ Len(pure.batch_results) = Len(pure.queries)
    /\ \A k \in 1..Len(pure.batch_results) :
          /\ pure.batch_results[k].query_index = k - 1
          /\ pure.batch_results[k].query = pure.queries[k]
          /\ pure.queries[k] = NotAString => ~pure.batch_results[k].result.success

\* C27: batch_hybrid_search returns one report per query, in input order and
\* with query_index the position of the query; a query that raises gives a
\* success = false report and the later queries are still processed; and
\* cache_hits is the number of returned reports with from_cache = true.
C27_BatchReports ==
    (pure.fn = "batch_hybrid_search" /\ pure.returned) =>
        /\ BatchShape
        /\ pure.cache_hits =
              Cardinality({k \in 1..Len(pure.batch_results) :
                              ServedFromCache(pure.batch_results[k].result)})

\* C28: a call on the collection object kept by SearchService runs on a
\* handle that is not back in the pool's queue and that no DatabaseService
\* operation holds at that moment.
C28_Use ==
    (used_handle' # used_handle) =>
        /\ used_handle' \notin Range(available_connections)
        /\ \A t \in Threads : client[t] # used_handle'

C28_NoUseAfterReturn == [][C28_Use]_vars

\* C29: when the reranker scored at least one candidate and every score is
\* >= 0, the adaptive filter returns the best-scored candidate; step 4 of
\* hybrid_search gives an empty result only for an empty fused list or
\* rerank_top_k = 0.
C29_BestIsKept ==
    /\ (IsRerank /\ pure.reranked # <<>>) =>
          \E i \in 1..Len(pure.out) :
              /\ pure.out[i].rerank_score = MaxOf(ScoresOf(pure.reranked))
              /\ \E k \in 1..Len(pure.reranked) :
                    /\ pure.reranked[k].kn = MaxOf(ScoresOf(pure.reranked))
                    /\ pure.out[i].c.doc = pure.reranked[k].index
    /\ (pure.fn = "hybrid_search" /\ pure.out = <<>>) =>
          (pure.fused_results = <<>> \/ pure.rerank_top_k = 0)

\* Every candidate was scored 0 by the reranker and the result is not empty.
C29_Witness ==
    /\ IsRerank
    /\ ~pure.failed
    /\ Len(pure.reranked) >= 2
    /\ MaxOf(ScoresOf(pure.reranked)) = 0
    /\ pure.out # <<>>

====
